---- MODULE Spec2Model ----
(***************************************************************************)
(* Model of the makeatui document engine: the schema (Canvas, Component,   *)
(* generateID), the agent Session (Execute / Undo / Redo and the other     *)
(* Session methods), the agent API convenience calls and the template      *)
(* engine's Apply.                                                         *)
(*                                                                         *)
(* Go slices are modelled as they are implemented: a slice value is a      *)
(* (backing array, length) pair and the arrays live in `heap`, so that two *)
(* Canvas values copied from each other share their components until one   *)
(* of them reallocates.                                                    *)
(***************************************************************************)
EXTENDS Integers, Sequences, FiniteSets, TLC

VARIABLES
    heap,       \* backing arrays of []schema.Component slices, by address
    sessions,   \* agent.Session per session slot
    template,   \* templates.Template.Canvas of the registered template
    idCounter,  \* schema.idCounter (process-global)
    trail,      \* the last operations performed (newest last), with results
    ops,        \* number of operations performed so far
    genFirst,   \* identifier generator run: the first id returned
    genLast,    \* identifier generator run: the id returned last
    genCalls,   \* identifier generator run: number of calls made
    exported,   \* the text Export returned last, and what it was generated from
    registry,       \* mcp.Server.sessions: session id -> mcp.Session
    sessionMu,      \* mcp.Server.sessionMu (sync.RWMutex)
    sessionCounter, \* mcp.sessionCounter (package-level)
    reqs,           \* the request each client of the server has in flight
    served,         \* what the server has answered so far: ids created, ids deleted
    slider,     \* an input.Slider
    wm,         \* an advanced.WindowManager
    windows,    \* the advanced.Window objects, by address
    call        \* the widget method called last, with its argument

serverVars == <<registry, sessionMu, sessionCounter, reqs, served>>

widgetVars == <<slider, wm, windows, call>>

vars == <<heap, sessions, template, idCounter, trail, ops, genFirst, genLast, genCalls,
          exported, serverVars, widgetVars>>

(***************************************************************************)
(* Bounds of the model.                                                    *)
(***************************************************************************)
MaxOps == 3          \* operations per behaviour of Spec
MaxShareOps == 2     \* operations per behaviour of SpecShare
MaxCalls == 65537    \* generateID calls per behaviour of SpecGen
UniqueN == 10000     \* the N of the id-uniqueness property
MaxGenOps == 3       \* operations per behaviour of SpecCodegen

Sessions == {1, 2}

(***************************************************************************)
(* schema: component types, Style, Component, Canvas.                      *)
(***************************************************************************)
TypeBox == "box"
TypeText == "text"
TypeButton == "button"
TypeList == "list"
TypeProgress == "progress"

NoID == <<>>

ZeroStyle == [Foreground |-> "", Bold |-> FALSE, Border |-> "nil"]

ZeroComponent ==
    [ID |-> NoID, Type |-> "", Name |-> "",
     Position |-> [X |-> 0, Y |-> 0], Size |-> [Width |-> 0, Height |-> 0],
     Style |-> ZeroStyle, Text |-> "", Items |-> <<>>, Value |-> "nil"]

\* byte(v): conversion of an integer to uint8.
Byte(v) == v % 256

\* Faulty variant of generateID: the high counter byte is dropped.
generateID_LowByteOnly(counter, timestamp, randomBytes) ==
    <<Byte(timestamp \div 2^24), Byte(timestamp \div 2^16),
      Byte(counter), Byte(counter), randomBytes>>

\* hex of {byte(ts>>24), byte(ts>>16), byte(counter>>8), byte(counter)}
\* followed by hex of the four random bytes; `counter` is the value
\* atomic.AddUint64 returned.
generateID(counter, timestamp, randomBytes) ==
    <<Byte(timestamp \div 2^24), Byte(timestamp \div 2^16),
      Byte(counter \div 2^8), Byte(counter), randomBytes>>

NewComponent(ctype, name, counter, env) ==
    [ID |-> generateID(counter, env.ts, env.rnd), Type |-> ctype, Name |-> name,
     Position |-> [X |-> 0, Y |-> 0], Size |-> [Width |-> 20, Height |-> 3],
     Style |-> [Foreground |-> "", Bold |-> FALSE, Border |-> "rounded"],
     Text |-> "", Items |-> <<>>, Value |-> "nil"]

(***************************************************************************)
(* Go slice semantics over the heap.                                       *)
(***************************************************************************)
EmptySlice == [arr |-> 0, len |-> 0]

Cap(h, sl) == IF sl.arr = 0 THEN 0 ELSE Len(h[sl.arr])

\* The elements a slice value denotes.
Elems(h, sl) == [i \in 1..sl.len |-> h[sl.arr][i]]

\* runtime growslice for the element size of schema.Component: the capacity
\* doubles while it is small.
GrowCap(oldCap, newLen) == IF newLen > 2 * oldCap THEN newLen ELSE 2 * oldCap

\* append(sl, x)
GoAppend(h, sl, x) ==
    IF sl.len < Cap(h, sl)
    THEN [heap |-> [h EXCEPT ![sl.arr][sl.len + 1] = x],
          slice |-> [arr |-> sl.arr, len |-> sl.len + 1]]
    ELSE LET newCap == GrowCap(Cap(h, sl), sl.len + 1)
             a == [i \in 1..newCap |->
                      IF i <= sl.len THEN h[sl.arr][i]
                      ELSE IF i = sl.len + 1 THEN x ELSE ZeroComponent]
         IN [heap |-> Append(h, a),
             slice |-> [arr |-> Len(h) + 1, len |-> sl.len + 1]]

\* make([]Component, len(sl)) followed by copy(dst, sl)
GoMakeCopy(h, sl) ==
    IF sl.len = 0
    THEN [heap |-> h, slice |-> EmptySlice]
    ELSE [heap |-> Append(h, Elems(h, sl)),
          slice |-> [arr |-> Len(h) + 1, len |-> sl.len]]

\* append(sl[:i], sl[i+1:]...) with i counted from 1: shifts in place.
GoDeleteAt(h, sl, i) ==
    [heap |-> [h EXCEPT ![sl.arr] =
                  [j \in 1..Len(h[sl.arr]) |->
                      IF j >= i /\ j < sl.len THEN h[sl.arr][j + 1] ELSE h[sl.arr][j]]],
     slice |-> [arr |-> sl.arr, len |-> sl.len - 1]]

\* Index of the first component with the given id, 0 when there is none.
IndexOf(h, sl, id) ==
    IF \E i \in 1..sl.len : h[sl.arr][i].ID = id
    THEN CHOOSE i \in 1..sl.len :
            /\ h[sl.arr][i].ID = id
            /\ \A j \in 1..(i - 1) : h[sl.arr][j].ID # id
    ELSE 0

(***************************************************************************)
(* agent: Session.                                                         *)
(***************************************************************************)
CmdAddComponent == "add_component"
CmdRemoveComponent == "remove_component"
CmdMoveComponent == "move_component"
CmdResizeComponent == "resize_component"
CmdStyleComponent == "style_component"
CmdSetText == "set_text"
CmdExport == "export"
CmdSave == "save"
CmdLoad == "load"
CmdUndo == "undo"
CmdRedo == "redo"

ErrNil == ""
ErrDecode == "json: cannot unmarshal"
ErrNotFound == "component not found"
ErrUnknown == "unknown command type"

NewSession(name, width, height) ==
    [Canvas |-> [Name |-> name, Width |-> width, Height |-> height,
                 Components |-> EmptySlice, Theme |-> "ultraviolet"],
     History |-> <<>>, UndoStack |-> <<>>, RedoStack |-> <<>>]

\* Result of a Session method: the heap, the session and the id counter
\* after the call, and what the call returned.
Result(h, S, c, err, arg) ==
    [heap |-> h, sess |-> S, ctr |-> c, err |-> err, arg |-> arg]

\* Faulty variant of saveState: the canvas is pushed as it is, its component
\* list shared with the live canvas instead of copied.
saveState_SharesComponents(h, S) ==
    [heap |-> h,
     sess |-> [S EXCEPT !.UndoStack = Append(S.UndoStack, S.Canvas),
                        !.RedoStack = <<>>]]

\* Faulty variant of saveState: the redo stack is not cleared.
saveState_KeepRedo(h, S) ==
    LET cp == GoMakeCopy(h, S.Canvas.Components)
        stateCopy == [S.Canvas EXCEPT !.Components = cp.slice]
    IN [heap |-> cp.heap,
        sess |-> [S EXCEPT !.UndoStack = Append(S.UndoStack, stateCopy)]]

saveState(h, S) ==
    LET cp == GoMakeCopy(h, S.Canvas.Components)
        stateCopy == [S.Canvas EXCEPT !.Components = cp.slice]
    IN [heap |-> cp.heap,
        sess |-> [S EXCEPT !.UndoStack = Append(S.UndoStack, stateCopy),
                           !.RedoStack = <<>>]]

\* Faulty variant of addComponent: the decode error is returned only after
\* the component built from the zero payload has been appended.
addComponent_ChecksErrorLate(h, S, c, env, p) ==
    LET q == IF p.wellformed THEN p ELSE [p EXCEPT !.wellformed = TRUE]
        c0 == NewComponent(q.Type, q.Name, c + 1, env)
        c1 == [c0 EXCEPT !.Position = [X |-> q.X, Y |-> q.Y]]
        c2 == IF q.Width > 0 THEN [c1 EXCEPT !.Size.Width = q.Width] ELSE c1
        c3 == IF q.Height > 0 THEN [c2 EXCEPT !.Size.Height = q.Height] ELSE c2
        c4 == [c3 EXCEPT !.Text = q.Text]
        comp == IF q.HasStyle THEN [c4 EXCEPT !.Style = q.Style] ELSE c4
        ap == GoAppend(h, S.Canvas.Components, comp)
    IN Result(ap.heap, [S EXCEPT !.Canvas.Components = ap.slice], c + 1,
              IF p.wellformed THEN ErrNil ELSE ErrDecode, NoID)

\* Faulty variant of addComponent: the payload's width and height are stored
\* whatever they are, 0 included.
addComponent_AlwaysOverridesSize(h, S, c, env, p) ==
    IF ~p.wellformed THEN Result(h, S, c, ErrDecode, NoID)
    ELSE LET c0 == NewComponent(p.Type, p.Name, c + 1, env)
             c1 == [c0 EXCEPT !.Position = [X |-> p.X, Y |-> p.Y]]
             c3 == [c1 EXCEPT !.Size = [Width |-> p.Width, Height |-> p.Height]]
             c4 == [c3 EXCEPT !.Text = p.Text]
             comp == IF p.HasStyle THEN [c4 EXCEPT !.Style = p.Style] ELSE c4
             ap == GoAppend(h, S.Canvas.Components, comp)
         IN Result(ap.heap, [S EXCEPT !.Canvas.Components = ap.slice], c + 1, ErrNil, NoID)

addComponent(h, S, c, env, p) ==
    IF ~p.wellformed THEN Result(h, S, c, ErrDecode, NoID)
    ELSE LET c0 == NewComponent(p.Type, p.Name, c + 1, env)
             c1 == [c0 EXCEPT !.Position = [X |-> p.X, Y |-> p.Y]]
             c2 == IF p.Width > 0 THEN [c1 EXCEPT !.Size.Width = p.Width] ELSE c1
             c3 == IF p.Height > 0 THEN [c2 EXCEPT !.Size.Height = p.Height] ELSE c2
             c4 == [c3 EXCEPT !.Text = p.Text]
             comp == IF p.HasStyle THEN [c4 EXCEPT !.Style = p.Style] ELSE c4
             ap == GoAppend(h, S.Canvas.Components, comp)
         IN Result(ap.heap, [S EXCEPT !.Canvas.Components = ap.slice], c + 1, ErrNil, NoID)

\* Faulty variant of removeComponent: an absent id removes the last component.
removeComponent_DropsLast(h, S, c, p) ==
    IF ~p.wellformed THEN Result(h, S, c, ErrDecode, NoID)
    ELSE LET sl == S.Canvas.Components
             i == IndexOf(h, sl, p.ID)
         IN IF i = 0 /\ sl.len = 0 THEN Result(h, S, c, ErrNotFound, p.ID)
            ELSE LET d == GoDeleteAt(h, sl, IF i = 0 THEN sl.len ELSE i)
                 IN Result(d.heap, [S EXCEPT !.Canvas.Components = d.slice],
                           c, IF i = 0 THEN ErrNotFound ELSE ErrNil, p.ID)

removeComponent(h, S, c, p) ==
    IF ~p.wellformed THEN Result(h, S, c, ErrDecode, NoID)
    ELSE LET sl == S.Canvas.Components
             i == IndexOf(h, sl, p.ID)
         IN IF i = 0 THEN Result(h, S, c, ErrNotFound, p.ID)
            ELSE LET d == GoDeleteAt(h, sl, i)
                 IN Result(d.heap, [S EXCEPT !.Canvas.Components = d.slice], c, ErrNil, NoID)

\* Faulty variant of moveComponent: the scan does not stop at the first
\* match, every component of that id is moved.
moveComponent_MovesEveryMatch(h, S, c, p) ==
    IF ~p.wellformed THEN Result(h, S, c, ErrDecode, NoID)
    ELSE LET sl == S.Canvas.Components
         IN IF IndexOf(h, sl, p.ID) = 0 THEN Result(h, S, c, ErrNotFound, p.ID)
            ELSE Result([h EXCEPT ![sl.arr] =
                            [j \in 1..Len(h[sl.arr]) |->
                                IF j <= sl.len /\ h[sl.arr][j].ID = p.ID
                                THEN [h[sl.arr][j] EXCEPT !.Position = [X |-> p.X, Y |-> p.Y]]
                                ELSE h[sl.arr][j]]],
                        S, c, ErrNil, NoID)

moveComponent(h, S, c, p) ==
    IF ~p.wellformed THEN Result(h, S, c, ErrDecode, NoID)
    ELSE LET sl == S.Canvas.Components
             i == IndexOf(h, sl, p.ID)
         IN IF i = 0 THEN Result(h, S, c, ErrNotFound, p.ID)
            ELSE Result([h EXCEPT ![sl.arr][i].Position = [X |-> p.X, Y |-> p.Y]],
                        S, c, ErrNil, NoID)

resizeComponent(h, S, c, p) ==
    IF ~p.wellformed THEN Result(h, S, c, ErrDecode, NoID)
    ELSE LET sl == S.Canvas.Components
             i == IndexOf(h, sl, p.ID)
         IN IF i = 0 THEN Result(h, S, c, ErrNotFound, p.ID)
            ELSE Result([h EXCEPT ![sl.arr][i].Size = [Width |-> p.Width, Height |-> p.Height]],
                        S, c, ErrNil, NoID)

styleComponent(h, S, c, p) ==
    IF ~p.wellformed THEN Result(h, S, c, ErrDecode, NoID)
    ELSE LET sl == S.Canvas.Components
             i == IndexOf(h, sl, p.ID)
         IN IF i = 0 THEN Result(h, S, c, ErrNotFound, p.ID)
            ELSE Result([h EXCEPT ![sl.arr][i].Style = p.Style], S, c, ErrNil, NoID)

\* Faulty variant of setText: the component that gets a text becomes a text
\* component.
setText_RetypesComponent(h, S, c, p) ==
    IF ~p.wellformed THEN Result(h, S, c, ErrDecode, NoID)
    ELSE LET sl == S.Canvas.Components
             i == IndexOf(h, sl, p.ID)
         IN IF i = 0 THEN Result(h, S, c, ErrNotFound, p.ID)
            ELSE Result([h EXCEPT ![sl.arr][i].Text = p.Text, ![sl.arr][i].Type = TypeText],
                        S, c, ErrNil, NoID)

setText(h, S, c, p) ==
    IF ~p.wellformed THEN Result(h, S, c, ErrDecode, NoID)
    ELSE LET sl == S.Canvas.Components
             i == IndexOf(h, sl, p.ID)
         IN IF i = 0 THEN Result(h, S, c, ErrNotFound, p.ID)
            ELSE Result([h EXCEPT ![sl.arr][i].Text = p.Text], S, c, ErrNil, NoID)

\* Faulty variant of Execute: a command of an unknown kind is ignored and
\* reported as a success.
Execute_IgnoresUnknown(h, S, c, env, cmd) ==
    LET sv == saveState(h, S)
    IN CASE cmd.Type = CmdAddComponent -> addComponent(sv.heap, sv.sess, c, env, cmd.Params)
         [] cmd.Type = CmdRemoveComponent -> removeComponent(sv.heap, sv.sess, c, cmd.Params)
         [] cmd.Type = CmdMoveComponent -> moveComponent(sv.heap, sv.sess, c, cmd.Params)
         [] cmd.Type = CmdResizeComponent -> resizeComponent(sv.heap, sv.sess, c, cmd.Params)
         [] cmd.Type = CmdStyleComponent -> styleComponent(sv.heap, sv.sess, c, cmd.Params)
         [] cmd.Type = CmdSetText -> setText(sv.heap, sv.sess, c, cmd.Params)
         [] OTHER -> Result(sv.heap, sv.sess, c, ErrNil, NoID)

\* The switch of Execute.  The error returned names its argument in `arg`:
\* the id of a not-found error, the kind of an unknown-kind error.
Dispatch(h, S, c, env, cmd) ==
    CASE cmd.Type = CmdAddComponent -> addComponent(h, S, c, env, cmd.Params)
      [] cmd.Type = CmdRemoveComponent -> removeComponent(h, S, c, cmd.Params)
      [] cmd.Type = CmdMoveComponent -> moveComponent(h, S, c, cmd.Params)
      [] cmd.Type = CmdResizeComponent -> resizeComponent(h, S, c, cmd.Params)
      [] cmd.Type = CmdStyleComponent -> styleComponent(h, S, c, cmd.Params)
      [] cmd.Type = CmdSetText -> setText(h, S, c, cmd.Params)
      [] OTHER -> Result(h, S, c, ErrUnknown, cmd.Type)

\* Execute: saveState, then the switch.
Execute(h, S, c, env, cmd) ==
    LET sv == saveState(h, S)
    IN Dispatch(sv.heap, sv.sess, c, env, cmd)

\* Faulty variant of Undo: the snapshot is popped but not restored.
Undo_KeepsCanvas(S) ==
    IF Len(S.UndoStack) = 0 THEN [sess |-> S, ok |-> FALSE]
    ELSE [sess |-> [S EXCEPT !.RedoStack = Append(S.RedoStack, S.Canvas),
                             !.UndoStack = SubSeq(S.UndoStack, 1, Len(S.UndoStack) - 1)],
          ok |-> TRUE]

\* Faulty variant of Undo: the current canvas is pushed on the redo stack
\* before the undo stack is tested for emptiness.
Undo_PushesRedoFirst(S) ==
    IF Len(S.UndoStack) = 0
    THEN [sess |-> [S EXCEPT !.RedoStack = Append(S.RedoStack, S.Canvas)], ok |-> FALSE]
    ELSE [sess |-> [S EXCEPT !.RedoStack = Append(S.RedoStack, S.Canvas),
                             !.Canvas = S.UndoStack[Len(S.UndoStack)],
                             !.UndoStack = SubSeq(S.UndoStack, 1, Len(S.UndoStack) - 1)],
          ok |-> TRUE]

\* Undo and Redo return [sess, ok]; they touch neither the heap nor the counter.
Undo(S) ==
    IF Len(S.UndoStack) = 0 THEN [sess |-> S, ok |-> FALSE]
    ELSE [sess |-> [S EXCEPT !.RedoStack = Append(S.RedoStack, S.Canvas),
                             !.Canvas = S.UndoStack[Len(S.UndoStack)],
                             !.UndoStack = SubSeq(S.UndoStack, 1, Len(S.UndoStack) - 1)],
          ok |-> TRUE]

\* Faulty variant of Redo: the current canvas is not pushed on the undo stack.
Redo_NoUndoPush(S) ==
    IF Len(S.RedoStack) = 0 THEN [sess |-> S, ok |-> FALSE]
    ELSE [sess |-> [S EXCEPT !.Canvas = S.RedoStack[Len(S.RedoStack)],
                             !.RedoStack = SubSeq(S.RedoStack, 1, Len(S.RedoStack) - 1)],
          ok |-> TRUE]

Redo(S) ==
    IF Len(S.RedoStack) = 0 THEN [sess |-> S, ok |-> FALSE]
    ELSE [sess |-> [S EXCEPT !.UndoStack = Append(S.UndoStack, S.Canvas),
                             !.Canvas = S.RedoStack[Len(S.RedoStack)],
                             !.RedoStack = SubSeq(S.RedoStack, 1, Len(S.RedoStack) - 1)],
          ok |-> TRUE]

\* Faulty variant of Clear: the components are dropped without a snapshot.
Clear_NoSnapshot(h, S) ==
    [heap |-> h, sess |-> [S EXCEPT !.Canvas.Components = EmptySlice]]

Clear(h, S) ==
    LET sv == saveState(h, S)
    IN [heap |-> sv.heap, sess |-> [sv.sess EXCEPT !.Canvas.Components = EmptySlice]]

SetTheme(S, theme) == [S EXCEPT !.Canvas.Theme = theme]

Resize(S, width, height) == [S EXCEPT !.Canvas.Width = width, !.Canvas.Height = height]

RECURSIVE DecodedCap(_)
\* Capacity of a slice the JSON decoder has grown element by element to
\* length n.
DecodedCap(n) ==
    IF n = 0 THEN 0
    ELSE LET c == DecodedCap(n - 1) IN IF n - 1 < c THEN c ELSE GrowCap(c, n)

\* Faulty variant of LoadFromJSON: the text is decoded into the session's
\* canvas in place, so that a text that fails to parse has already
\* overwritten the fields decoded before the error.
LoadFromJSON_DecodesInPlace(h, S, doc) ==
    LET n == Len(doc.Components)
        a == [i \in 1..DecodedCap(n) |->
                 IF i <= n THEN doc.Components[i] ELSE ZeroComponent]
        sl == IF n = 0 THEN EmptySlice ELSE [arr |-> Len(h) + 1, len |-> n]
        h2 == IF n = 0 THEN h ELSE Append(h, a)
    IN IF ~doc.wellformed
       THEN [heap |-> h, sess |-> [S EXCEPT !.Canvas.Name = doc.Name], err |-> ErrDecode]
       ELSE [heap |-> h2,
             sess |-> [S EXCEPT !.Canvas =
                          [Name |-> doc.Name, Width |-> doc.Width, Height |-> doc.Height,
                           Components |-> sl, Theme |-> doc.Theme]],
             err |-> ErrNil]

\* LoadFromJSON: json.Unmarshal into a fresh Canvas, then assignment.  The
\* text is given by what it parses to: `doc.wellformed` tells whether it
\* parses, `doc.Components` is the decoded component array.
LoadFromJSON(h, S, doc) ==
    IF ~doc.wellformed THEN [heap |-> h, sess |-> S, err |-> ErrDecode]
    ELSE LET n == Len(doc.Components)
             a == [i \in 1..DecodedCap(n) |->
                      IF i <= n THEN doc.Components[i] ELSE ZeroComponent]
             sl == IF n = 0 THEN EmptySlice ELSE [arr |-> Len(h) + 1, len |-> n]
             h2 == IF n = 0 THEN h ELSE Append(h, a)
         IN [heap |-> h2,
             sess |-> [S EXCEPT !.Canvas =
                          [Name |-> doc.Name, Width |-> doc.Width, Height |-> doc.Height,
                           Components |-> sl, Theme |-> doc.Theme]],
             err |-> ErrNil]

\* ListComponents: the current component list.
ListComponents(h, S) == Elems(h, S.Canvas.Components)

(***************************************************************************)
(* agent: ExportJSON and the decoding half of LoadFromJSON (encoding/json  *)
(* applied to schema.Canvas).  A JSON text is modelled by the object it    *)
(* denotes; a member dropped by `omitempty` is marked absent.              *)
(***************************************************************************)
\* The Go string "menu\xff": its last byte is not valid UTF-8.
RawName == "menu\\xFF"

\* A float64 that JSON has no representation for.
NaN == "NaN"

ErrUnsupportedValue == "json: unsupported value"

\* The string a JSON text carries for a Go string: the encoder replaces
\* every byte that is not valid UTF-8 by U+FFFD.
JSONString(str) == IF str = RawName THEN "menu\\uFFFD" ELSE str

\* A member tagged `omitempty`.
OmitEmpty(v, empty) == [present |-> v # empty, v |-> v]

MarshalStyle(st) ==
    [foreground |-> OmitEmpty(JSONString(st.Foreground), ""),
     bold |-> OmitEmpty(st.Bold, FALSE),
     border |-> OmitEmpty(st.Border, "nil")]

\* The id is a hex string (ASCII) and is carried as it is.
MarshalComponent(comp) ==
    [id |-> comp.ID, type |-> JSONString(comp.Type), name |-> JSONString(comp.Name),
     position |-> [x |-> comp.Position.X, y |-> comp.Position.Y],
     size |-> [width |-> comp.Size.Width, height |-> comp.Size.Height],
     style |-> MarshalStyle(comp.Style),
     text |-> OmitEmpty(JSONString(comp.Text), ""),
     items |-> OmitEmpty([i \in 1..Len(comp.Items) |-> JSONString(comp.Items[i])], <<>>),
     value |-> OmitEmpty(comp.Value, "nil")]

\* The text of no bytes, which ExportJSON returns with an error.
NoText == [wellformed |-> FALSE, name |-> "", width |-> 0, height |-> 0,
           components |-> <<>>, theme |-> ""]

\* ExportJSON: json.MarshalIndent(s.Canvas); the encoder fails on a float
\* that is NaN or infinite.
ExportJSON(h, S) ==
    LET comps == Elems(h, S.Canvas.Components)
    IN IF \E i \in 1..Len(comps) : comps[i].Value = NaN
       THEN [text |-> NoText, err |-> ErrUnsupportedValue]
       ELSE [text |-> [wellformed |-> TRUE,
                       name |-> JSONString(S.Canvas.Name),
                       width |-> S.Canvas.Width, height |-> S.Canvas.Height,
                       components |-> [i \in 1..Len(comps) |-> MarshalComponent(comps[i])],
                       theme |-> JSONString(S.Canvas.Theme)],
             err |-> ErrNil]

UnmarshalStyle(j) ==
    [Foreground |-> IF j.foreground.present THEN j.foreground.v ELSE "",
     Bold |-> IF j.bold.present THEN j.bold.v ELSE FALSE,
     Border |-> IF j.border.present THEN j.border.v ELSE "nil"]

UnmarshalComponent(j) ==
    [ID |-> j.id, Type |-> j.type, Name |-> j.name,
     Position |-> [X |-> j.position.x, Y |-> j.position.y],
     Size |-> [Width |-> j.size.width, Height |-> j.size.height],
     Style |-> UnmarshalStyle(j.style),
     Text |-> IF j.text.present THEN j.text.v ELSE "",
     Items |-> IF j.items.present THEN j.items.v ELSE <<>>,
     Value |-> IF j.value.present THEN j.value.v ELSE "nil"]

\* json.Unmarshal([]byte(data), &canvas): what LoadFromJSON decodes from a
\* text.
Unmarshal(text) ==
    [wellformed |-> text.wellformed, Name |-> text.name,
     Width |-> text.width, Height |-> text.height, Theme |-> text.theme,
     Components |-> [i \in 1..Len(text.components) |-> UnmarshalComponent(text.components[i])]]

(***************************************************************************)
(* codegen: Generator.  The generated text is modelled as the sequence of  *)
(* the strings written to the builder, each given by its format and the    *)
(* formatted arguments.                                                    *)
(***************************************************************************)
TypeInput == "input"

\* fmt.Sprintf(format, args...)
Sprintf(format, args) == [fmt |-> format, args |-> args]

\* A string written as it is.
Literal(str) == Sprintf(str, <<>>)

\* The verb %d applied to an int.
FmtD(n) == ToString(n)

\* The verb %q applied to a string: strconv.Quote.  The texts of the model
\* hold no character that Quote escapes.
FmtQ(str) == "\"" \o str \o "\""

RECURSIVE Flatten(_)
\* The concatenation of a sequence of texts.
Flatten(texts) ==
    IF texts = <<>> THEN <<>> ELSE Head(texts) \o Flatten(Tail(texts))

\* NewGenerator: the canvas value is copied, its slice header included.
NewGenerator(canvas) == [Canvas |-> canvas]

Preamble == <<Literal("package main; import (fmt, os, tea, lipgloss)")>>

\* Faulty variant of generateStyles: the palette is named after the canvas
\* theme.
generateStyles_UsesTheme(g) ==
    <<Sprintf("// Styles - %s theme; var (primaryColor ... buttonActiveStyle)", <<g.Canvas.Theme>>)>>

generateStyles(g) ==
    <<Literal("// Styles - Ultraviolet theme; var (primaryColor ... buttonActiveStyle)")>>

\* The body of generateModel's loop: the state fields of one component.
modelFields(index, comp) ==
    CASE comp.Type = TypeInput ->
            <<Sprintf("\tinput%d string\n", <<FmtD(index)>>)>>
      [] comp.Type = TypeList ->
            <<Sprintf("\tlist%d []string\n", <<FmtD(index)>>),
              Sprintf("\tlist%dSelected int\n", <<FmtD(index)>>)>>
      [] comp.Type = TypeProgress ->
            <<Sprintf("\tprogress%d float64\n", <<FmtD(index)>>)>>
      [] OTHER -> <<>>

ModelHead ==
    <<Literal("// Model represents the application state\n"),
      Literal("type model struct {\n"),
      Literal("\twidth  int\n"),
      Literal("\theight int\n")>>

ModelFoot == <<Literal("\tquitting bool\n"), Literal("}\n\n")>>

generateModel(h, g) ==
    LET comps == Elems(h, g.Canvas.Components)
    IN ModelHead
       \o Flatten([i \in 1..Len(comps) |-> modelFields(i - 1, comps[i])])
       \o ModelFoot

generateInit ==
    <<Literal("func (m model) Init() tea.Cmd {\n"),
      Literal("\treturn nil\n"),
      Literal("}\n\n")>>

generateUpdate == <<Literal("func (m model) Update(msg tea.Msg) (tea.Model, tea.Cmd) {...}")>>

\* Faulty variant of generateComponentView: the placeholder names the
\* component by its index.
generateComponentView_TagsIndex(index, comp) ==
    CASE comp.Type = TypeBox ->
            <<Sprintf("\t// Box: %s\n", <<comp.Name>>),
              Sprintf("\tbox%d := boxStyle.Width(%d).Height(%d).Render(%q)\n",
                      <<FmtD(index), FmtD(comp.Size.Width), FmtD(comp.Size.Height), FmtQ(comp.Text)>>),
              Sprintf("\tcontent += box%d + \"\\n\"\n\n", <<FmtD(index)>>)>>
      [] comp.Type = TypeText ->
            <<Sprintf("\t// Text: %s\n", <<comp.Name>>),
              Sprintf("\ttext%d := lipgloss.NewStyle().Foreground(textColor).Render(%q)\n",
                      <<FmtD(index), FmtQ(comp.Text)>>),
              Sprintf("\tcontent += text%d + \"\\n\"\n\n", <<FmtD(index)>>)>>
      [] comp.Type = TypeButton ->
            <<Sprintf("\t// Button: %s\n", <<comp.Name>>),
              Sprintf("\tbutton%d := buttonStyle.Render(%q)\n", <<FmtD(index), FmtQ(comp.Text)>>),
              Sprintf("\tcontent += button%d + \"\\n\"\n\n", <<FmtD(index)>>)>>
      [] OTHER ->
            <<Sprintf("\t// %s: %s (TODO: implement)\n", <<comp.Type, FmtD(index)>>),
              Sprintf("\tcontent += \"[%s: %s]\\n\"\n\n", <<comp.Type, FmtD(index)>>)>>

\* Faulty variant of generateComponentView: a component of a type without a
\* renderer is left out.
generateComponentView_OmitsUnknown(index, comp) ==
    CASE comp.Type = TypeBox ->
            <<Sprintf("\t// Box: %s\n", <<comp.Name>>),
              Sprintf("\tbox%d := boxStyle.Width(%d).Height(%d).Render(%q)\n",
                      <<FmtD(index), FmtD(comp.Size.Width), FmtD(comp.Size.Height), FmtQ(comp.Text)>>),
              Sprintf("\tcontent += box%d + \"\\n\"\n\n", <<FmtD(index)>>)>>
      [] comp.Type = TypeText ->
            <<Sprintf("\t// Text: %s\n", <<comp.Name>>),
              Sprintf("\ttext%d := lipgloss.NewStyle().Foreground(textColor).Render(%q)\n",
                      <<FmtD(index), FmtQ(comp.Text)>>),
              Sprintf("\tcontent += text%d + \"\\n\"\n\n", <<FmtD(index)>>)>>
      [] comp.Type = TypeButton ->
            <<Sprintf("\t// Button: %s\n", <<comp.Name>>),
              Sprintf("\tbutton%d := buttonStyle.Render(%q)\n", <<FmtD(index), FmtQ(comp.Text)>>),
              Sprintf("\tcontent += button%d + \"\\n\"\n\n", <<FmtD(index)>>)>>
      [] OTHER -> <<>>

generateComponentView(index, comp) ==
    CASE comp.Type = TypeBox ->
            <<Sprintf("\t// Box: %s\n", <<comp.Name>>),
              Sprintf("\tbox%d := boxStyle.Width(%d).Height(%d).Render(%q)\n",
                      <<FmtD(index), FmtD(comp.Size.Width), FmtD(comp.Size.Height), FmtQ(comp.Text)>>),
              Sprintf("\tcontent += box%d + \"\\n\"\n\n", <<FmtD(index)>>)>>
      [] comp.Type = TypeText ->
            <<Sprintf("\t// Text: %s\n", <<comp.Name>>),
              Sprintf("\ttext%d := lipgloss.NewStyle().Foreground(textColor).Render(%q)\n",
                      <<FmtD(index), FmtQ(comp.Text)>>),
              Sprintf("\tcontent += text%d + \"\\n\"\n\n", <<FmtD(index)>>)>>
      [] comp.Type = TypeButton ->
            <<Sprintf("\t// Button: %s\n", <<comp.Name>>),
              Sprintf("\tbutton%d := buttonStyle.Render(%q)\n", <<FmtD(index), FmtQ(comp.Text)>>),
              Sprintf("\tcontent += button%d + \"\\n\"\n\n", <<FmtD(index)>>)>>
      [] OTHER ->
            <<Sprintf("\t// %s: %s (TODO: implement)\n", <<comp.Type, comp.Name>>),
              Sprintf("\tcontent += \"[%s: %s]\\n\"\n\n", <<comp.Type, comp.Name>>)>>

ViewHead ==
    <<Literal("func (m model) View() string {\n"),
      Literal("\tif m.quitting {\n"),
      Literal("\t\treturn \"\"\n"),
      Literal("\t}\n\n"),
      Literal("\tvar content string\n\n")>>

ViewFoot == <<Literal("\treturn content\n"), Literal("}\n\n")>>

generateView(h, g) ==
    LET comps == Elems(h, g.Canvas.Components)
    IN ViewHead
       \o Flatten([i \in 1..Len(comps) |-> generateComponentView(i - 1, comps[i])])
       \o ViewFoot

generateMain == <<Literal("func main() {...}")>>

\* Generate: the sections are written one after the other.
Generate(h, g) ==
    Preamble \o generateStyles(g) \o generateModel(h, g) \o generateInit
    \o generateUpdate \o generateView(h, g) \o generateMain

\* Session.Export: the code generated from the current canvas.
Export(h, S) == Generate(h, NewGenerator(S.Canvas))

(***************************************************************************)
(* agent: API (the convenience calls).                                     *)
(***************************************************************************)
ZeroParams ==
    [wellformed |-> TRUE, ID |-> NoID, Type |-> "", Name |-> "",
     X |-> 0, Y |-> 0, Width |-> 0, Height |-> 0, Text |-> "",
     HasStyle |-> FALSE, Style |-> ZeroStyle]

Command(type, params) == [Type |-> type, Params |-> params]

NewAPI(projectName) == NewSession(projectName, 80, 24)

\* The id the Add* calls return: that of the last component, "" if none.
LastID(h, S) ==
    IF S.Canvas.Components.len > 0
    THEN h[S.Canvas.Components.arr][S.Canvas.Components.len].ID
    ELSE NoID

APIResult(r) == [heap |-> r.heap, sess |-> r.sess, ctr |-> r.ctr, id |-> LastID(r.heap, r.sess)]

AddBox(h, S, c, env, name, text, x, y, width, height) ==
    APIResult(Execute(h, S, c, env,
        Command(CmdAddComponent,
                [ZeroParams EXCEPT !.Type = TypeBox, !.Name = name, !.X = x, !.Y = y,
                                   !.Width = width, !.Height = height, !.Text = text])))

AddText(h, S, c, env, name, text, x, y) ==
    APIResult(Execute(h, S, c, env,
        Command(CmdAddComponent,
                [ZeroParams EXCEPT !.Type = TypeText, !.Name = name, !.X = x, !.Y = y,
                                   !.Text = text])))

AddButton(h, S, c, env, name, label, x, y) ==
    APIResult(Execute(h, S, c, env,
        Command(CmdAddComponent,
                [ZeroParams EXCEPT !.Type = TypeButton, !.Name = name, !.X = x, !.Y = y,
                                   !.Width = Len(label) + 6, !.Height = 3, !.Text = label])))

AddList(h, S, c, env, name, items, x, y, width, height) ==
    LET c0 == NewComponent(TypeList, name, c + 1, env)
        comp == [c0 EXCEPT !.Position = [X |-> x, Y |-> y],
                           !.Size = [Width |-> width, Height |-> height],
                           !.Items = items]
        ap == GoAppend(h, S.Canvas.Components, comp)
    IN [heap |-> ap.heap, sess |-> [S EXCEPT !.Canvas.Components = ap.slice],
        ctr |-> c + 1, id |-> comp.ID]

AddProgress(h, S, c, env, name, value, x, y, width) ==
    LET c0 == NewComponent(TypeProgress, name, c + 1, env)
        comp == [c0 EXCEPT !.Position = [X |-> x, Y |-> y],
                           !.Size = [Width |-> width, Height |-> 1],
                           !.Value = value]
        ap == GoAppend(h, S.Canvas.Components, comp)
    IN [heap |-> ap.heap, sess |-> [S EXCEPT !.Canvas.Components = ap.slice],
        ctr |-> c + 1, id |-> comp.ID]

\* ImportCanvas: the canvas value is assigned, its slice header included.
ImportCanvas(S, canvas) == [S EXCEPT !.Canvas = canvas]

(***************************************************************************)
(* templates: a template built with the TemplateBuilder, and Apply.        *)
(***************************************************************************)
TemplateName == "chat-interface"

\* Clock and random bytes seen by the calls of the session specifications.
SessionEnv == {[ts |-> 65536, rnd |-> 1]}

BuildEnv == [ts |-> 0, rnd |-> 0]

\* builtins.ChatInterface: the builder's API after its three calls.
ChatInterface ==
    LET b0 == [heap |-> <<>>, sess |-> NewAPI(TemplateName), ctr |-> 0]
        b1 == AddBox(b0.heap, b0.sess, b0.ctr, BuildEnv, "messages", "Chat", 0, 0, 80, 18)
        b2 == AddBox(b1.heap, b1.sess, b1.ctr, BuildEnv, "input", "", 0, 19, 80, 3)
    IN AddText(b2.heap, b2.sess, b2.ctr, BuildEnv, "prompt", "> ", 2, 20)

\* TemplateBuilder.Build: template.Canvas = *api.GetCanvas()
Build(b) == b.sess.Canvas

\* TemplateEngine.Apply: a new API with the template's canvas imported.
Apply(canvas) == ImportCanvas(NewAPI(TemplateName), canvas)

(***************************************************************************)
(* Inputs of the operations.                                               *)
(***************************************************************************)
MissingID == <<255, 255, 255, 255, 0>>
LoadedID == <<170, 170, 170, 170, 0>>

RedStyle == [Foreground |-> "#FF0000", Bold |-> TRUE, Border |-> "nil"]

Malformed == [ZeroParams EXCEPT !.wellformed = FALSE]

AddParamsSet ==
    { [ZeroParams EXCEPT !.Type = TypeBox, !.Name = "header", !.X = 0, !.Y = 0,
                         !.Width = 80, !.Height = 3, !.Text = "Hi"],
      [ZeroParams EXCEPT !.Type = "input", !.Name = "field", !.X = -1, !.Y = 4,
                         !.Width = 0, !.Height = -1, !.HasStyle = TRUE,
                         !.Style = RedStyle] }

IdKinds == {CmdRemoveComponent, CmdMoveComponent, CmdResizeComponent,
            CmdStyleComponent, CmdSetText}

\* The payload of a command of kind k that addresses component id.
IdParams(k, id) ==
    CASE k = CmdMoveComponent -> [ZeroParams EXCEPT !.ID = id, !.X = 5, !.Y = -1]
      [] k = CmdResizeComponent -> [ZeroParams EXCEPT !.ID = id, !.Width = -2, !.Height = 0]
      [] k = CmdStyleComponent -> [ZeroParams EXCEPT !.ID = id, !.Style = RedStyle]
      [] k = CmdSetText -> [ZeroParams EXCEPT !.ID = id, !.Text = "new"]
      [] OTHER -> [ZeroParams EXCEPT !.ID = id]

ProtocolKinds == {CmdAddComponent} \cup IdKinds \cup
                 {CmdExport, CmdSave, CmdLoad, CmdUndo, CmdRedo}

CanvasIDs(h, S) == {h[S.Canvas.Components.arr][i].ID : i \in 1..S.Canvas.Components.len}

AddCommands == {Command(CmdAddComponent, p) : p \in AddParamsSet}

IdCommands(ids) == {Command(k, IdParams(k, id)) : k \in IdKinds, id \in ids}

\* The commands offered to Execute in a state.
Commands(h, S) ==
    AddCommands
    \cup IdCommands(CanvasIDs(h, S) \cup {MissingID})
    \cup {Command(CmdAddComponent, Malformed), Command(CmdRemoveComponent, Malformed)}
    \cup {Command(k, ZeroParams) : k \in {CmdExport, CmdSave, CmdLoad, CmdUndo, CmdRedo, "bogus"}}

LoadedComponent(name) ==
    [ZeroComponent EXCEPT !.ID = LoadedID, !.Type = TypeText, !.Name = name, !.Text = name]

Doc(comps) ==
    [wellformed |-> TRUE, Name |-> "Loaded", Width |-> 40, Height |-> 10,
     Theme |-> "mono", Components |-> comps]

Docs ==
    { [Doc(<<>>) EXCEPT !.wellformed = FALSE],
      Doc(<<LoadedComponent("a")>>),
      Doc(<<LoadedComponent("a"), LoadedComponent("b")>>) }

(***************************************************************************)
(* mcp: Server.  The registry of sessions, its lock, and the requests in   *)
(* flight.  Each handler runs in a goroutine of its own; a handler is a    *)
(* sequence of steps, one per access to the memory it shares with others.  *)
(***************************************************************************)
Clients == {1, 2}

\* sync.RWMutex: the client holding the write lock (0: none), and the
\* clients holding the read lock.
Unlocked == [writer |-> 0, readers |-> {}]

CanLock(mu) == mu.writer = 0 /\ mu.readers = {}

CanRLock(mu) == mu.writer = 0

\* A nil *mcp.Session.
NilSession == [nil |-> TRUE, ID |-> "", Name |-> "", API |-> 0]

NoSessions == [id \in {} |-> NilSession]

\* generateSessionID: sessionCounter++ and Sprintf("session_%d"), under the
\* package-level mutex.
generateSessionID(counter) ==
    [counter |-> counter + 1, id |-> "session_" \o ToString(counter + 1)]

\* The body of CreateSession; `api` is the address of the API it allocates.
CreateSession(reg, counter, name, api) ==
    LET g == generateSessionID(counter)
        session == [nil |-> FALSE, ID |-> g.id, Name |-> name, API |-> api]
    IN [registry |-> [id \in DOMAIN reg \cup {g.id} |-> IF id = g.id THEN session ELSE reg[id]],
        counter |-> g.counter,
        session |-> session]

\* s.sessions[id]
GetSession(reg, id) == IF id \in DOMAIN reg THEN reg[id] ELSE NilSession

\* Faulty variant of the delete of handleSession: the entry is kept.
deleteSession_KeepsEntry(reg, id) == reg

\* delete(s.sessions, id)
deleteSession(reg, id) == [x \in DOMAIN reg \ {id} |-> reg[x]]

StatusOK == 200
StatusBadRequest == 400
StatusNotFound == 404

NoResponse == [status |-> 0, msg |-> "", id |-> NoID, sid |-> ""]

\* respondJSON with a status word, a component id, or a session.
respondJSON(msg, id, sid) == [status |-> StatusOK, msg |-> msg, id |-> id, sid |-> sid]

respondError(status, message) == [status |-> status, msg |-> message, id |-> NoID, sid |-> ""]

KindCreate == "POST /sessions"
KindGet == "GET /sessions/"
KindDelete == "DELETE /sessions/"
KindAdd == "/tools/add_component"
KindMove == "/tools/move_component"
KindRemove == "/tools/remove_component"
KindSetText == "/tools/set_text"

\* Nothing answered yet: the ids of the sessions created (in the order of the
\* responses) and of the sessions deleted.
NothingServed == [created |-> <<>>, deleted |-> {}]

\* A request in flight: what was asked (kind, session id, component type and
\* name, command), where its handler stands (pc), the handler's locals
\* (session, view: the Session fields it has read, ctr: the counter value
\* NewComponent obtained, err) and the response once written.  `before` and
\* `after` hold what the server had answered when the request was sent and
\* when it was answered.
NoRequest ==
    [kind |-> "", sid |-> "", type |-> "", name |-> "", cmd |-> Command("", ZeroParams),
     pc |-> "idle", session |-> NilSession, view |-> NewSession("", 0, 0), ctr |-> 0,
     err |-> ErrNil, resp |-> NoResponse,
     before |-> NothingServed, after |-> NothingServed]

ServerIdle ==
    /\ registry = NoSessions
    /\ sessionMu = Unlocked
    /\ sessionCounter = 0
    /\ reqs = [c \in Clients |-> NoRequest]
    /\ served = NothingServed

(***************************************************************************)
(* widgets/input: Slider.  A float64 is a number or NaN; the numbers of    *)
(* the model are integers, which float64 adds and compares exactly.        *)
(***************************************************************************)
Float(n) == [nan |-> FALSE, v |-> n]

\* math.NaN()
mathNaN == [nan |-> TRUE, v |-> 0]

\* x + y and x - y: NaN when an operand is NaN.
FAdd(x, y) == IF x.nan \/ y.nan THEN mathNaN ELSE Float(x.v + y.v)

FSub(x, y) == IF x.nan \/ y.nan THEN mathNaN ELSE Float(x.v - y.v)

\* x <= y: false when an operand is NaN.
FLe(x, y) == ~x.nan /\ ~y.nan /\ x.v <= y.v

\* math.Max and math.Min: NaN when an operand is NaN.
mathMax(x, y) == IF x.nan \/ y.nan THEN mathNaN ELSE IF x.v >= y.v THEN x ELSE y

mathMin(x, y) == IF x.nan \/ y.nan THEN mathNaN ELSE IF x.v <= y.v THEN x ELSE y

\* clamp: math.Min(math.Max(value, min), max)
clamp(value, min, max) == mathMin(mathMax(value, min), max)

NewSlider(id, min, max) ==
    [ID |-> id, Min |-> min, Max |-> max, Step |-> Float(1), Value |-> min,
     Disabled |-> FALSE]

SetStep(s, step) == [s EXCEPT !.Step = step]

SetValue(s, value) == [s EXCEPT !.Value = clamp(value, s.Min, s.Max)]

SetDisabled(s, disabled) == [s EXCEPT !.Disabled = disabled]

Increment(s) == [s EXCEPT !.Value = clamp(FAdd(s.Value, s.Step), s.Min, s.Max)]

Decrement(s) == [s EXCEPT !.Value = clamp(FSub(s.Value, s.Step), s.Min, s.Max)]

\* Slider.Update with a tea.KeyMsg, given by msg.String().
SliderUpdate(s, key) ==
    IF s.Disabled THEN s
    ELSE CASE key \in {"right", "l", "up", "k"} -> Increment(s)
           [] key \in {"left", "h", "down", "j"} -> Decrement(s)
           [] key = "home" -> SetValue(s, s.Min)
           [] key = "end" -> SetValue(s, s.Max)
           [] OTHER -> s

(***************************************************************************)
(* widgets/advanced: Window and WindowManager.  wm.Windows holds addresses *)
(* of Window objects; FocusedIdx counts from 0.                            *)
(***************************************************************************)
WindowIDs == {"win1", "win2", "win3"}

NewWindow(id) == [ID |-> id, Focused |-> FALSE, Visible |-> TRUE, zIndex |-> 0]

NewWindowManager(id, width, height) ==
    [ID |-> id, Width |-> width, Height |-> height, Windows |-> <<>>, FocusedIdx |-> -1]

\* The orders sort.Slice may leave a slice in: sorted by zIndex, windows of
\* equal zIndex in any order (the sort is not stable).
SortSlice(ws, objs) ==
    LET n == Len(ws)
        perms == {f \in [1..n -> 1..n] : \A i, j \in 1..n : i # j => f[i] # f[j]}
    IN {[i \in 1..n |-> ws[f[i]]] : f \in
          {g \in perms : \A i, j \in 1..n : i < j => objs[ws[g[i]]].zIndex <= objs[ws[g[j]]].zIndex}}

\* Index (from 0) of the first focused window of the slice; `dflt` if none.
FirstFocused(ws, objs, dflt) ==
    IF \E i \in 1..Len(ws) : objs[ws[i]].Focused
    THEN (CHOOSE i \in 1..Len(ws) :
             /\ objs[ws[i]].Focused
             /\ \A j \in 1..(i - 1) : ~objs[ws[j]].Focused) - 1
    ELSE dflt

\* FocusWindow: the outcomes it may have, each with the manager and the
\* windows after the call.
FocusWindow(m, objs, idx) ==
    IF idx < 0 \/ idx >= Len(m.Windows)
    THEN {[wm |-> m, windows |-> objs]}
    ELSE LET held == {m.Windows[i] : i \in 1..Len(m.Windows)}
             target == m.Windows[idx + 1]
             o1 == [w \in DOMAIN objs |->
                       IF w \in held THEN [objs[w] EXCEPT !.Focused = FALSE] ELSE objs[w]]
             o2 == [o1 EXCEPT ![target].Focused = TRUE,
                              ![target].zIndex = Len(m.Windows)]
         IN {[wm |-> [m EXCEPT !.Windows = sorted,
                               !.FocusedIdx = FirstFocused(sorted, o2, idx)],
              windows |-> o2] : sorted \in SortSlice(m.Windows, o2)}

AddWindow(m, objs, w) ==
    FocusWindow([m EXCEPT !.Windows = Append(@, w)],
                [objs EXCEPT ![w].zIndex = Len(m.Windows)],
                Len(m.Windows))

\* RemoveWindow: the first window of that id leaves the slice.
RemoveWindow(m, objs, id) ==
    LET n == Len(m.Windows)
        found == {i \in 1..n : objs[m.Windows[i]].ID = id}
        ws == IF found = {} THEN m.Windows
              ELSE LET i == CHOOSE i \in found : \A j \in found : i <= j
                   IN [k \in 1..(n - 1) |-> IF k < i THEN m.Windows[k] ELSE m.Windows[k + 1]]
    IN [m EXCEPT !.Windows = ws,
                 !.FocusedIdx = IF m.FocusedIdx >= Len(ws) THEN Len(ws) - 1 ELSE m.FocusedIdx]

FocusNext(m, objs) ==
    IF Len(m.Windows) = 0 THEN {[wm |-> m, windows |-> objs]}
    ELSE FocusWindow(m, objs, (m.FocusedIdx + 1) % Len(m.Windows))

FocusPrev(m, objs) ==
    IF Len(m.Windows) = 0 THEN {[wm |-> m, windows |-> objs]}
    ELSE FocusWindow(m, objs,
                     IF m.FocusedIdx - 1 < 0 THEN Len(m.Windows) - 1 ELSE m.FocusedIdx - 1)

\* GetFocused: the address of the focused window, "" for nil.
GetFocused(m) ==
    IF m.FocusedIdx >= 0 /\ m.FocusedIdx < Len(m.Windows)
    THEN m.Windows[m.FocusedIdx + 1]
    ELSE ""

\* No widget method has been called yet.
NoCall == [op |-> "", value |-> Float(0), window |-> "", idx |-> 0]

WidgetsIdle ==
    /\ slider = NewSlider("test-slider", Float(0), Float(100))
    /\ wm = NewWindowManager("wm", 80, 24)
    /\ windows = [w \in WindowIDs |-> NewWindow(w)]
    /\ call = NoCall

(***************************************************************************)
(* The state machine.                                                      *)
(***************************************************************************)
Entry(s, op, type, err, ok, id) ==
    [s |-> s, op |-> op, Type |-> type, err |-> err, ok |-> ok, id |-> id]

Push(tr, e) == IF Len(tr) < 3 THEN Append(tr, e) ELSE Append(Tail(tr), e)

GenIdle == /\ genFirst = NoID /\ genLast = NoID /\ genCalls = 0

\* No Export call has been made yet.
NotExported == [s |-> 0, text |-> <<>>, from |-> <<>>]

Init ==
    LET b == ChatInterface
    IN /\ heap = b.heap
       /\ template = Build(b)
       /\ idCounter = b.ctr
       /\ sessions = [s \in Sessions |-> NewAPI("Demo")]
       /\ trail = <<>>
       /\ ops = 0
       /\ GenIdle
       /\ exported = NotExported
       /\ ServerIdle
       /\ WidgetsIdle

Step(s, h, S, c, e) ==
    /\ heap' = h
    /\ sessions' = [sessions EXCEPT ![s] = S]
    /\ idCounter' = c
    /\ trail' = Push(trail, e)
    /\ ops' = ops + 1
    /\ UNCHANGED <<template, genFirst, genLast, genCalls, exported, serverVars, widgetVars>>

ExecuteCmd(s, cmd) ==
    \E env \in SessionEnv :
        LET r == Execute(heap, sessions[s], idCounter, env, cmd)
        IN Step(s, r.heap, r.sess, r.ctr, Entry(s, "Execute", cmd.Type, r.err, r.err = ErrNil, r.arg))

ExecuteAct(s) == \E cmd \in Commands(heap, sessions[s]) : ExecuteCmd(s, cmd)

UndoAct(s) ==
    LET r == Undo(sessions[s])
    IN Step(s, heap, r.sess, idCounter, Entry(s, "Undo", "", ErrNil, r.ok, NoID))

RedoAct(s) ==
    LET r == Redo(sessions[s])
    IN Step(s, heap, r.sess, idCounter, Entry(s, "Redo", "", ErrNil, r.ok, NoID))

ClearAct(s) ==
    LET r == Clear(heap, sessions[s])
    IN Step(s, r.heap, r.sess, idCounter, Entry(s, "Clear", "", ErrNil, TRUE, NoID))

SetThemeAct(s) ==
    \E theme \in {"neon"} :
        Step(s, heap, SetTheme(sessions[s], theme), idCounter,
             Entry(s, "SetTheme", "", ErrNil, TRUE, NoID))

ResizeAct(s) ==
    \E d \in {[w |-> 120, h |-> 40]} :
        Step(s, heap, Resize(sessions[s], d.w, d.h), idCounter,
             Entry(s, "Resize", "", ErrNil, TRUE, NoID))

LoadFromJSONAct(s) ==
    \E doc \in Docs :
        LET r == LoadFromJSON(heap, sessions[s], doc)
        IN Step(s, r.heap, r.sess, idCounter,
                Entry(s, "LoadFromJSON", "", r.err, r.err = ErrNil, NoID))

APIStep(s, op, r) == Step(s, r.heap, r.sess, r.ctr, Entry(s, op, "", ErrNil, TRUE, r.id))

AddBoxAct(s) ==
    \E env \in SessionEnv :
        APIStep(s, "AddBox", AddBox(heap, sessions[s], idCounter, env, "panel", "Panel", 2, 2, 30, 0))

AddTextAct(s) ==
    \E env \in SessionEnv :
        APIStep(s, "AddText", AddText(heap, sessions[s], idCounter, env, "title", "Welcome", 3, 1))

AddButtonAct(s) ==
    \E env \in SessionEnv :
        APIStep(s, "AddButton", AddButton(heap, sessions[s], idCounter, env, "next", "[ Next ]", 55, 18))

\* Names given to AddList: Go strings, of any bytes.
ListNames == {"menu", RawName}

\* Values given to AddProgress: float64.
ProgressValues == {"0.65", NaN}

AddListAct(s) ==
    \E env \in SessionEnv : \E name \in ListNames :
        APIStep(s, "AddList",
                AddList(heap, sessions[s], idCounter, env, name, <<"Home", "Settings">>, 1, 6, 18, 8))

AddProgressAct(s) ==
    \E env \in SessionEnv : \E value \in ProgressValues :
        APIStep(s, "AddProgress",
                AddProgress(heap, sessions[s], idCounter, env, "cpu", value, 25, 6, 30))

ApplyAct(s) ==
    Step(s, heap, Apply(template), idCounter, Entry(s, "Apply", "", ErrNil, TRUE, NoID))

\* Export reads the session; the text it returns is kept in `exported`.
ExportAct(s) ==
    /\ exported' = [s |-> s, text |-> Export(heap, sessions[s]),
                    from |-> ListComponents(heap, sessions[s])]
    /\ trail' = Push(trail, Entry(s, "Export", "", ErrNil, TRUE, NoID))
    /\ ops' = ops + 1
    /\ UNCHANGED <<heap, sessions, template, idCounter, genFirst, genLast, genCalls,
                   serverVars, widgetVars>>

MainSessions == {1}

Next ==
    /\ ops < MaxOps
    /\ \E s \in MainSessions :
        \/ ExecuteAct(s)
        \/ UndoAct(s)
        \/ RedoAct(s)
        \/ ClearAct(s)
        \/ SetThemeAct(s)
        \/ ResizeAct(s)
        \/ LoadFromJSONAct(s)
        \/ AddBoxAct(s)
        \/ AddTextAct(s)
        \/ AddButtonAct(s)
        \/ AddListAct(s)
        \/ AddProgressAct(s)
        \/ ApplyAct(s)
        \/ ExportAct(s)

Spec == Init /\ [][Next]_vars

(***************************************************************************)
(* One session edited through Execute, Undo, Redo and Clear, starting      *)
(* empty or from the template.                                             *)
(***************************************************************************)
MaxEditOps == 3    \* operations per behaviour of SpecEdit

NextEdit ==
    /\ ops < MaxEditOps
    /\ \E s \in MainSessions :
        \/ ExecuteAct(s)
        \/ UndoAct(s)
        \/ RedoAct(s)
        \/ ClearAct(s)
        \/ ApplyAct(s)

SpecEdit == Init /\ [][NextEdit]_vars

(***************************************************************************)
(* Two sessions obtained from the same template (TemplateEngine.Apply).    *)
(***************************************************************************)
InitShare ==
    LET b == ChatInterface
    IN /\ heap = b.heap
       /\ template = Build(b)
       /\ idCounter = b.ctr
       /\ sessions = [s \in Sessions |-> Apply(Build(b))]
       /\ trail = <<>>
       /\ ops = 0
       /\ GenIdle
       /\ exported = NotExported
       /\ ServerIdle
       /\ WidgetsIdle

ShareExecuteAct(s) ==
    \E cmd \in AddCommands \cup IdCommands(CanvasIDs(heap, sessions[s])) : ExecuteCmd(s, cmd)

NextShare ==
    /\ ops < MaxShareOps
    /\ \E s \in Sessions :
        \/ ShareExecuteAct(s)
        \/ UndoAct(s)
        \/ RedoAct(s)
        \/ ApplyAct(s)

SpecShare == InitShare /\ [][NextShare]_vars

(***************************************************************************)
(* The code generator at work: a canvas is composed with the calls that    *)
(* add components or bring in a template, and exported between them.       *)
(***************************************************************************)
AddComponentAct(s) == \E cmd \in AddCommands : ExecuteCmd(s, cmd)

NextCodegen ==
    /\ ops < MaxGenOps
    /\ \E s \in MainSessions :
        \/ AddComponentAct(s)
        \/ AddBoxAct(s)
        \/ AddTextAct(s)
        \/ AddButtonAct(s)
        \/ AddListAct(s)
        \/ AddProgressAct(s)
        \/ ApplyAct(s)
        \/ SetThemeAct(s)
        \/ UndoAct(s)
        \/ ExportAct(s)

SpecCodegen == Init /\ [][NextCodegen]_vars

(***************************************************************************)
(* The session server at work: clients send requests, and the handlers of  *)
(* the requests in flight run interleaved.  The handlers of the tools take *)
(* no lock beyond the lookup in the registry, so the steps of two handlers *)
(* working on one session interleave at every access to the session.       *)
(***************************************************************************)
MaxToolRequests == 3       \* requests sent per behaviour of SpecTools
MaxRegistryRequests == 4   \* requests sent per behaviour of SpecRegistry

docVars == <<heap, sessions, template, idCounter>>
ghostVars == <<trail, genFirst, genLast, genCalls, exported, widgetVars>>

\* The command an API call of a tool handler gives to Execute.
APICommand(kind, type, name, id) ==
    CASE kind = KindAdd /\ type = TypeBox ->
            Command(CmdAddComponent,
                    [ZeroParams EXCEPT !.Type = TypeBox, !.Name = name, !.X = 1, !.Y = 2,
                                       !.Width = 30, !.Height = 0, !.Text = "hello"])
      [] kind = KindAdd /\ type = TypeText ->
            Command(CmdAddComponent,
                    [ZeroParams EXCEPT !.Type = TypeText, !.Name = name, !.X = 1, !.Y = 2,
                                       !.Text = "hello"])
      [] kind = KindAdd /\ type = TypeButton ->
            Command(CmdAddComponent,
                    [ZeroParams EXCEPT !.Type = TypeButton, !.Name = name, !.X = 1, !.Y = 2,
                                       !.Width = Len("hello") + 6, !.Height = 3,
                                       !.Text = "hello"])
      [] kind = KindMove -> Command(CmdMoveComponent, IdParams(CmdMoveComponent, id))
      [] kind = KindRemove -> Command(CmdRemoveComponent, IdParams(CmdRemoveComponent, id))
      [] kind = KindSetText -> Command(CmdSetText, IdParams(CmdSetText, id))
      [] OTHER -> Command("", ZeroParams)

\* The word the handler of a tool answers with.
StatusWord(kind) ==
    CASE kind = KindMove -> "moved"
      [] kind = KindRemove -> "removed"
      [] kind = KindSetText -> "updated"
      [] OTHER -> ""

Request(kind, sid, type, name, id) ==
    [NoRequest EXCEPT !.kind = kind, !.sid = sid, !.type = type, !.name = name,
                      !.cmd = APICommand(kind, type, name, id),
                      !.pc = IF kind = KindCreate THEN "Lock" ELSE "GetSession"]

\* The client sends a request and its handler starts.
Send(c, r) ==
    /\ reqs[c].pc \in {"idle", "done"}
    /\ reqs' = [reqs EXCEPT ![c] = [r EXCEPT !.before = served]]
    /\ ops' = ops + 1

\* The handler writes its response and returns.
Answer(c, resp, sv) ==
    /\ reqs' = [reqs EXCEPT ![c].pc = "done", ![c].resp = resp, ![c].after = sv]
    /\ served' = sv

Goto(c, pc) == reqs' = [reqs EXCEPT ![c].pc = pc]

ClientName(c) == "by client " \o ToString(c)

ToolSessionIDs == {"session_1", "session_7"}

ComponentTypes == {TypeBox, TypeText, "gauge"}

SendAdd(c) ==
    /\ ops < MaxToolRequests
    /\ \E sid \in ToolSessionIDs : \E type \in ComponentTypes :
          Send(c, Request(KindAdd, sid, type, ClientName(c), NoID))
    /\ UNCHANGED <<docVars, ghostVars, registry, sessionMu, sessionCounter, served>>

SendEdit(c) ==
    /\ ops < MaxToolRequests
    /\ \E kind \in {KindMove, KindRemove, KindSetText} :
          \E id \in CanvasIDs(heap, sessions[1]) \cup {MissingID} :
              Send(c, Request(kind, "session_1", "", "", id))
    /\ UNCHANGED <<docVars, ghostVars, registry, sessionMu, sessionCounter, served>>

\* GetSession: RLock and the read of the map.
RLockStep(c) ==
    /\ reqs[c].pc = "GetSession"
    /\ CanRLock(sessionMu)
    /\ sessionMu' = [sessionMu EXCEPT !.readers = @ \cup {c}]
    /\ reqs' = [reqs EXCEPT ![c].session = GetSession(registry, reqs[c].sid),
                            ![c].pc = "RUnlock"]
    /\ UNCHANGED <<docVars, ghostVars, registry, sessionCounter, served, ops>>

\* GetSession returns (RUnlock), and the handler goes on with what it got.
RUnlockStep(c) ==
    LET r == reqs[c]
    IN /\ r.pc = "RUnlock"
       /\ sessionMu' = [sessionMu EXCEPT !.readers = @ \ {c}]
       /\ IF r.session.nil
          THEN Answer(c, respondError(StatusNotFound, "session not found"), served)
          ELSE CASE r.kind = KindGet ->
                      Answer(c, respondJSON("", NoID, r.session.ID), served)
                 [] r.kind = KindDelete ->
                      Goto(c, "Lock") /\ UNCHANGED served
                 [] r.kind = KindAdd /\ r.type \notin {TypeBox, TypeText, TypeButton} ->
                      Answer(c, respondError(StatusBadRequest, "unknown component type"), served)
                 [] OTHER ->
                      Goto(c, "saveState") /\ UNCHANGED served
       /\ UNCHANGED <<docVars, ghostVars, registry, sessionCounter, ops>>

\* saveState, first half: s.Canvas and s.UndoStack are read.
SaveRead(c) ==
    /\ reqs[c].pc = "saveState"
    /\ reqs' = [reqs EXCEPT ![c].view = sessions[reqs[c].session.API], ![c].pc = "push"]
    /\ UNCHANGED <<docVars, ghostVars, registry, sessionMu, sessionCounter, served, ops>>

\* saveState, second half: the copy is made from what was read, and
\* s.UndoStack and s.RedoStack are written.
SaveWrite(c) ==
    LET a == reqs[c].session.API
        sv == saveState(heap, reqs[c].view)
    IN /\ reqs[c].pc = "push"
       /\ heap' = sv.heap
       /\ sessions' = [sessions EXCEPT ![a].UndoStack = sv.sess.UndoStack,
                                       ![a].RedoStack = sv.sess.RedoStack]
       /\ Goto(c, "dispatch")
       /\ UNCHANGED <<template, idCounter, ghostVars, registry, sessionMu, sessionCounter,
                      served, ops>>

\* The dispatched method, first half: NewComponent takes its counter value
\* (atomic.AddUint64) and s.Canvas.Components is read.
ExecRead(c) ==
    LET r == reqs[c]
        adds == r.cmd.Type = CmdAddComponent
    IN /\ r.pc = "dispatch"
       /\ idCounter' = IF adds THEN idCounter + 1 ELSE idCounter
       /\ reqs' = [reqs EXCEPT ![c].view = sessions[r.session.API],
                               ![c].ctr = idCounter,
                               ![c].pc = "write"]
       /\ UNCHANGED <<heap, sessions, template, ghostVars, registry, sessionMu,
                      sessionCounter, served, ops>>

\* The dispatched method, second half: the component found is written in
\* place, or the slice built from what was read is stored in
\* s.Canvas.Components.  A handler other than handleAddComponent drops the
\* error and answers.
ExecWrite(c) ==
    LET r == reqs[c]
        a == r.session.API
    IN /\ r.pc = "write"
       /\ \E env \in SessionEnv :
             LET x == Dispatch(heap, r.view, r.ctr, env, r.cmd)
             IN /\ heap' = x.heap
                /\ sessions' = [sessions EXCEPT ![a].Canvas.Components = x.sess.Canvas.Components]
                /\ IF r.kind = KindAdd
                   THEN /\ reqs' = [reqs EXCEPT ![c].err = x.err, ![c].pc = "ListComponents"]
                        /\ UNCHANGED served
                   ELSE /\ reqs' = [reqs EXCEPT ![c].err = x.err, ![c].pc = "done",
                                                ![c].resp = respondJSON(StatusWord(r.kind), NoID, ""),
                                                ![c].after = served]
                        /\ UNCHANGED served
       /\ UNCHANGED <<template, idCounter, ghostVars, registry, sessionMu, sessionCounter, ops>>

\* AddBox, AddText, AddButton after Execute: the id of the last component
\* of the list is returned and answered.
ListStep(c) ==
    LET r == reqs[c]
    IN /\ r.pc = "ListComponents"
       /\ Answer(c, respondJSON("", LastID(heap, sessions[r.session.API]), ""), served)
       /\ UNCHANGED <<docVars, ghostVars, registry, sessionMu, sessionCounter, ops>>

\* A server on which one session has been created.
InitTools ==
    LET r == CreateSession(NoSessions, 0, "Demo", 1)
    IN /\ heap = <<>>
       /\ template = NewAPI(TemplateName).Canvas
       /\ sessions = [s \in Sessions |-> NewAPI("Demo")]
       /\ idCounter = 0
       /\ trail = <<>>
       /\ ops = 0
       /\ GenIdle
       /\ exported = NotExported
       /\ WidgetsIdle
       /\ registry = r.registry
       /\ sessionMu = Unlocked
       /\ sessionCounter = r.counter
       /\ reqs = [c \in Clients |-> NoRequest]
       /\ served = [created |-> <<r.session.ID>>, deleted |-> {}]

NextTools ==
    \E c \in Clients :
        \/ SendAdd(c)
        \/ SendEdit(c)
        \/ RLockStep(c)
        \/ RUnlockStep(c)
        \/ SaveRead(c)
        \/ SaveWrite(c)
        \/ ExecRead(c)
        \/ ExecWrite(c)
        \/ ListStep(c)

SpecTools == InitTools /\ [][NextTools]_vars

(***************************************************************************)
(* The registry of the session server under create, lookup and delete      *)
(* requests.  CreateSession and the DELETE branch of handleSession work    *)
(* under the write lock, GetSession under the read lock; the response is   *)
(* written after the lock has been released.                               *)
(***************************************************************************)
\* Session ids asked for: ids the server hands out, and one it does not.
RegistryIDs == {"session_1", "session_2", "session_9"}

SendCreate(c) ==
    /\ ops < MaxRegistryRequests
    /\ Send(c, Request(KindCreate, "", "", ClientName(c), NoID))
    /\ UNCHANGED <<docVars, ghostVars, registry, sessionMu, sessionCounter, served>>

SendLookup(c) ==
    /\ ops < MaxRegistryRequests
    /\ \E kind \in {KindGet, KindDelete} : \E sid \in RegistryIDs :
          Send(c, Request(kind, sid, "", "", NoID))
    /\ UNCHANGED <<docVars, ghostVars, registry, sessionMu, sessionCounter, served>>

\* s.sessionMu.Lock()
LockStep(c) ==
    /\ reqs[c].pc = "Lock"
    /\ CanLock(sessionMu)
    /\ sessionMu' = [sessionMu EXCEPT !.writer = c]
    /\ Goto(c, IF reqs[c].kind = KindCreate THEN "create" ELSE "delete")
    /\ UNCHANGED <<docVars, ghostVars, registry, sessionCounter, served, ops>>

\* The body of CreateSession: the id is generated, the API allocated and
\* the session stored in the map.
CreateStep(c) ==
    LET r == CreateSession(registry, sessionCounter, reqs[c].name, Len(sessions) + 1)
    IN /\ reqs[c].pc = "create"
       /\ registry' = r.registry
       /\ sessionCounter' = r.counter
       /\ sessions' = Append(sessions, NewAPI(reqs[c].name))
       /\ reqs' = [reqs EXCEPT ![c].session = r.session, ![c].pc = "Unlock"]
       /\ UNCHANGED <<heap, template, idCounter, ghostVars, sessionMu, served, ops>>

\* delete(s.sessions, id)
DeleteStep(c) ==
    /\ reqs[c].pc = "delete"
    /\ registry' = deleteSession(registry, reqs[c].sid)
    /\ Goto(c, "Unlock")
    /\ UNCHANGED <<docVars, ghostVars, sessionMu, sessionCounter, served, ops>>

\* s.sessionMu.Unlock(): the create or the delete is complete.
UnlockStep(c) ==
    LET r == reqs[c]
    IN /\ r.pc = "Unlock"
       /\ sessionMu' = [sessionMu EXCEPT !.writer = 0]
       /\ served' = IF r.kind = KindCreate
                    THEN [served EXCEPT !.created = Append(@, r.session.ID)]
                    ELSE [served EXCEPT !.deleted = @ \cup {r.sid}]
       /\ Goto(c, "respond")
       /\ UNCHANGED <<docVars, ghostVars, registry, sessionCounter, ops>>

\* respondJSON with the session created, or with the status "deleted".
RespondStep(c) ==
    LET r == reqs[c]
    IN /\ r.pc = "respond"
       /\ Answer(c, IF r.kind = KindCreate THEN respondJSON("", NoID, r.session.ID)
                    ELSE respondJSON("deleted", NoID, ""), served)
       /\ UNCHANGED <<docVars, ghostVars, registry, sessionMu, sessionCounter, ops>>

\* NewServer: no session yet.
InitRegistry ==
    /\ heap = <<>>
    /\ template = NewAPI(TemplateName).Canvas
    /\ sessions = [s \in Sessions |-> NewAPI("Demo")]
    /\ idCounter = 0
    /\ trail = <<>>
    /\ ops = 0
    /\ GenIdle
    /\ exported = NotExported
    /\ WidgetsIdle
    /\ ServerIdle

NextRegistry ==
    \E c \in Clients :
        \/ SendCreate(c)
        \/ SendLookup(c)
        \/ RLockStep(c)
        \/ RUnlockStep(c)
        \/ LockStep(c)
        \/ CreateStep(c)
        \/ DeleteStep(c)
        \/ UnlockStep(c)
        \/ RespondStep(c)

SpecRegistry == InitRegistry /\ [][NextRegistry]_vars

(***************************************************************************)
(* A slider in use: created over a range, then driven by its methods and   *)
(* by key messages.                                                        *)
(***************************************************************************)
MaxSliderOps == 4    \* calls per behaviour of SpecSlider

nonWidgetVars == <<heap, sessions, template, idCounter, trail, genFirst, genLast, genCalls,
                   exported, serverVars>>

\* Ranges a slider is created with (Min <= Max).
SliderRanges == {<<Float(0), Float(100)>>, <<Float(5), Float(5)>>}

\* Arguments of SetValue: inside the range, below it, above it, and NaN.
SliderValues == {Float(50), Float(-7), Float(250), mathNaN}

SliderSteps == {Float(5), Float(40)}

SliderKeys == {"right", "k", "left", "j", "home", "end", "x"}

InitSlider ==
    /\ heap = <<>>
    /\ template = NewAPI(TemplateName).Canvas
    /\ sessions = [s \in Sessions |-> NewAPI("Demo")]
    /\ idCounter = 0
    /\ trail = <<>>
    /\ ops = 0
    /\ GenIdle
    /\ exported = NotExported
    /\ ServerIdle
    /\ \E r \in SliderRanges : slider = NewSlider("test-slider", r[1], r[2])
    /\ wm = NewWindowManager("wm", 80, 24)
    /\ windows = [w \in WindowIDs |-> NewWindow(w)]
    /\ call = NoCall

SliderStep(s, op, value) ==
    /\ ops < MaxSliderOps
    /\ slider' = s
    /\ call' = [NoCall EXCEPT !.op = op, !.value = value]
    /\ ops' = ops + 1
    /\ UNCHANGED <<nonWidgetVars, wm, windows>>

SetValueAct == \E value \in SliderValues : SliderStep(SetValue(slider, value), "SetValue", value)

SetStepAct == \E step \in SliderSteps : SliderStep(SetStep(slider, step), "SetStep", step)

SetDisabledAct ==
    \E disabled \in BOOLEAN :
        SliderStep(SetDisabled(slider, disabled), "SetDisabled", Float(0))

IncrementAct == SliderStep(Increment(slider), "Increment", Float(0))

DecrementAct == SliderStep(Decrement(slider), "Decrement", Float(0))

SliderUpdateAct ==
    \E key \in SliderKeys : SliderStep(SliderUpdate(slider, key), "Update", Float(0))

NextSlider ==
    \/ SetValueAct
    \/ SetStepAct
    \/ SetDisabledAct
    \/ IncrementAct
    \/ DecrementAct
    \/ SliderUpdateAct

SpecSlider == InitSlider /\ [][NextSlider]_vars

(***************************************************************************)
(* A window manager in use: windows are added, focused and removed.  A     *)
(* window is removed when it reports WindowClosedMsg, which a focused      *)
(* window does on "q" or "esc".                                            *)
(***************************************************************************)
MaxWindowOps == 4    \* calls per behaviour of SpecWindows

\* Arguments of FocusWindow: below the slice, inside it, beyond it.
WindowIndexes == -1..3

\* Ids asked of RemoveWindow: the windows, and one no window has.
RemovedIDs == WindowIDs \cup {"ghost"}

InitWindows ==
    /\ heap = <<>>
    /\ template = NewAPI(TemplateName).Canvas
    /\ sessions = [s \in Sessions |-> NewAPI("Demo")]
    /\ idCounter = 0
    /\ trail = <<>>
    /\ ops = 0
    /\ GenIdle
    /\ exported = NotExported
    /\ ServerIdle
    /\ WidgetsIdle

\* A call of a WindowManager method with outcome `out`.
WindowStep(out, op, window, idx) ==
    /\ ops < MaxWindowOps
    /\ wm' = out.wm
    /\ windows' = out.windows
    /\ call' = [NoCall EXCEPT !.op = op, !.window = window, !.idx = idx]
    /\ ops' = ops + 1
    /\ UNCHANGED <<nonWidgetVars, slider>>

\* The windows the manager holds.
Held(m) == {m.Windows[i] : i \in 1..Len(m.Windows)}

AddWindowAct ==
    \E w \in WindowIDs \ Held(wm) :
        \E out \in AddWindow(wm, windows, w) : WindowStep(out, "AddWindow", w, 0)

RemoveWindowAct ==
    \E id \in RemovedIDs :
        WindowStep([wm |-> RemoveWindow(wm, windows, id), windows |-> windows],
                   "RemoveWindow", id, 0)

FocusWindowAct ==
    \E idx \in WindowIndexes :
        \E out \in FocusWindow(wm, windows, idx) : WindowStep(out, "FocusWindow", "", idx)

FocusNextAct == \E out \in FocusNext(wm, windows) : WindowStep(out, "FocusNext", "", 0)

FocusPrevAct == \E out \in FocusPrev(wm, windows) : WindowStep(out, "FocusPrev", "", 0)

NextWindows ==
    \/ AddWindowAct
    \/ RemoveWindowAct
    \/ FocusWindowAct
    \/ FocusNextAct
    \/ FocusPrevAct

SpecWindows == InitWindows /\ [][NextWindows]_vars

(***************************************************************************)
(* The identifier generator on its own: repeated NewComponent calls, with  *)
(* the first id returned kept for comparison.                              *)
(***************************************************************************)
ClockValues == {0, 65536}
RandValues == {0, 1}

\* Values of idCounter at which the observed run starts: a fresh process,
\* and one that has created 60000 components before.
GenStartCounters == {0, 60000}

InitGen ==
    /\ heap = <<>>
    /\ template = NewAPI(TemplateName).Canvas
    /\ sessions = [s \in Sessions |-> NewAPI("Demo")]
    /\ idCounter \in GenStartCounters
    /\ trail = <<>>
    /\ ops = 0
    /\ GenIdle
    /\ exported = NotExported
    /\ ServerIdle
    /\ WidgetsIdle

NewComponentAct ==
    /\ genCalls < MaxCalls
    /\ \E ts \in ClockValues, rnd \in RandValues :
        LET comp == NewComponent(TypeBox, "c", idCounter + 1, [ts |-> ts, rnd |-> rnd])
        IN /\ idCounter' = idCounter + 1
           /\ genCalls' = genCalls + 1
           /\ genLast' = comp.ID
           /\ genFirst' = IF genCalls = 0 THEN comp.ID ELSE genFirst
    /\ UNCHANGED <<heap, sessions, template, trail, ops, exported, serverVars, widgetVars>>

NextGen == NewComponentAct

SpecGen == InitGen /\ [][NextGen]_vars

(***************************************************************************)
(* Views used by the properties.                                           *)
(***************************************************************************)
\* A canvas by value: its scalar fields and the components its slice denotes.
CanvasView(h, cv) ==
    [Name |-> cv.Name, Width |-> cv.Width, Height |-> cv.Height, Theme |-> cv.Theme,
     Components |-> Elems(h, cv.Components)]

LastEntry == trail[Len(trail)]

\* Every id that occurs in some backing array, and a few that occur in none.
ProbeIDs ==
    {MissingID, LoadedID, NoID}
    \cup UNION {{heap[a][i].ID : i \in 1..Len(heap[a])} : a \in 1..Len(heap)}

(***************************************************************************)
(* Properties.                                                             *)
(***************************************************************************)

\* C1: Add/Undo inverse.  In every reachable state, for every valid
\* AddComponent command, Execute(add) succeeds and the Undo() that follows
\* returns true and leaves the component list (ids, field values, order)
\* that was there before Execute.
C1_AddUndoInverse ==
    \A s \in Sessions : \A cmd \in AddCommands : \A env \in SessionEnv :
        LET e == Execute(heap, sessions[s], idCounter, env, cmd)
            u == Undo(e.sess)
        IN /\ e.err = ErrNil
           /\ Len(Elems(e.heap, e.sess.Canvas.Components)) = Len(ListComponents(heap, sessions[s])) + 1
           /\ u.ok
           /\ Elems(e.heap, u.sess.Canvas.Components) = ListComponents(heap, sessions[s])

\* C1 witness: a session with components on which Execute(add) and then
\* Undo() have just run.
C1_Witness ==
    /\ Len(trail) >= 2
    /\ trail[Len(trail) - 1].op = "Execute"
    /\ trail[Len(trail) - 1].Type = CmdAddComponent
    /\ trail[Len(trail) - 1].ok
    /\ LastEntry.op = "Undo" /\ LastEntry.ok
    /\ Len(ListComponents(heap, sessions[LastEntry.s])) >= 2

\* C2: Redo inverts Undo.  In every state with a non-empty undoStack, Undo()
\* then Redo() both return true and leave the canvas, the undoStack and the
\* redoStack as they were; and Execute(add); Undo(); Redo() leaves the canvas
\* that Execute(add) produced.
C2_RedoInvertsUndo ==
    \A s \in Sessions :
        /\ Len(sessions[s].UndoStack) > 0 =>
              LET u == Undo(sessions[s])
                  r == Redo(u.sess)
              IN /\ u.ok /\ r.ok
                 /\ r.sess.Canvas = sessions[s].Canvas
                 /\ r.sess.UndoStack = sessions[s].UndoStack
                 /\ r.sess.RedoStack = sessions[s].RedoStack
        /\ \A cmd \in AddCommands : \A env \in SessionEnv :
              LET e == Execute(heap, sessions[s], idCounter, env, cmd)
                  r == Redo(Undo(e.sess).sess)
              IN /\ r.ok
                 /\ CanvasView(e.heap, r.sess.Canvas) = CanvasView(e.heap, e.sess.Canvas)

\* C2 witness: Execute(add), Undo() and Redo() have just run in this order
\* and the canvas holds the added component again.
C2_Witness ==
    /\ Len(trail) = 3
    /\ trail[1].op = "Execute" /\ trail[1].Type = CmdAddComponent /\ trail[1].ok
    /\ trail[2].op = "Undo" /\ trail[2].ok
    /\ trail[3].op = "Redo" /\ trail[3].ok
    /\ Len(ListComponents(heap, sessions[trail[3].s])) >= 1
    /\ Len(sessions[trail[3].s].UndoStack) >= 1

\* C3: a new mutation clears redo.  From every reachable state, after
\* Execute(add); Undo(), any further command given to Execute (succeeding,
\* failing, or of an unknown kind) makes the next Redo() return false and
\* change nothing.
C3_MutationClearsRedo ==
    \A s \in Sessions : \A add \in AddCommands : \A env \in SessionEnv :
        LET e == Execute(heap, sessions[s], idCounter, env, add)
            u == Undo(e.sess)
        IN \A cmd \in Commands(e.heap, u.sess) :
              LET x == Execute(e.heap, u.sess, e.ctr, env, cmd)
                  r == Redo(x.sess)
              IN /\ Len(u.sess.RedoStack) > 0
                 /\ ~r.ok
                 /\ r.sess = x.sess

\* C3 witness: Execute(add), Undo() and then a failing Execute have run; the
\* redo history is gone and Redo() returns false.
C3_Witness ==
    /\ Len(trail) = 3
    /\ trail[1].op = "Execute" /\ trail[1].Type = CmdAddComponent /\ trail[1].ok
    /\ trail[2].op = "Undo" /\ trail[2].ok
    /\ trail[3].op = "Execute" /\ ~trail[3].ok
    /\ ~Redo(sessions[trail[3].s]).ok

\* C4: not-found is total.  Execute of Move, Resize, Style, SetText or Remove
\* with an id that no component of the canvas has returns
\* "component not found: {id}" and leaves the component list as it was.
C4_NotFoundTotal ==
    \A s \in Sessions : \A k \in IdKinds : \A env \in SessionEnv :
        \A id \in ProbeIDs \ CanvasIDs(heap, sessions[s]) :
            LET r == Execute(heap, sessions[s], idCounter, env, Command(k, IdParams(k, id)))
            IN /\ r.err = ErrNotFound
               /\ r.arg = id
               /\ ListComponents(r.heap, r.sess) = ListComponents(heap, sessions[s])

\* C4 witness: a command naming an absent id has just been executed on a
\* canvas that has components, and it returned the not-found error.
C4_Witness ==
    /\ Len(trail) >= 1
    /\ LastEntry.op = "Execute" /\ LastEntry.Type \in IdKinds
    /\ LastEntry.err = ErrNotFound /\ LastEntry.id = MissingID
    /\ Len(ListComponents(heap, sessions[LastEntry.s])) >= 2

\* The operation performed by the step, when the step is an operation.
Performed == /\ ops' = ops + 1
             /\ Len(trail') >= 1

NewEntry == trail'[Len(trail')]

\* C5: session ownership is exclusive.  A Move, Resize, Style, SetText or
\* Remove executed in one of two sessions obtained from the same template
\* changes neither the canvas of the other session nor the canvas stored in
\* the template.
C5_SessionsIndependent ==
    [][ (Performed /\ NewEntry.op = "Execute" /\ NewEntry.Type \in IdKinds) =>
            /\ \A t \in Sessions \ {NewEntry.s} :
                  CanvasView(heap', sessions'[t].Canvas) = CanvasView(heap, sessions[t].Canvas)
            /\ CanvasView(heap', template') = CanvasView(heap, template) ]_vars

ConvenienceOps == {"AddBox", "AddText", "AddButton", "AddList", "AddProgress",
                   "SetTheme", "Clear"}

\* C6: every convenience call goes through the command path.  Each AddBox,
\* AddText, AddButton, AddList, AddProgress, SetTheme or Clear pushes exactly
\* one undo snapshot and clears the redoStack, and the Undo() that follows
\* gives back the canvas as it was before the call.
C6_ConvenienceUsesCommandPath ==
    [][ (Performed /\ NewEntry.op \in ConvenienceOps) =>
            LET s == NewEntry.s
                u == Undo(sessions'[s])
            IN /\ Len(sessions'[s].UndoStack) = Len(sessions[s].UndoStack) + 1
               /\ sessions'[s].RedoStack = <<>>
               /\ u.ok
               /\ CanvasView(heap', u.sess.Canvas) = CanvasView(heap, sessions[s].Canvas) ]_vars

\* C7: in every reachable state no two components of a canvas have the same
\* id.
C7_UniqueComponentIDs ==
    \A s \in Sessions :
        LET comps == ListComponents(heap, sessions[s])
        IN \A i, j \in 1..Len(comps) : i # j => comps[i].ID # comps[j].ID

\* C8: the identifier generator never returns a value it returned before,
\* whatever the clock and the random source deliver: no id returned by a
\* later call equals the first id returned.
C8_GeneratorNeverRepeats ==
    genCalls >= 2 => genLast # genFirst

C10_ProtocolKindsAccepted ==
    (Len(trail) >= 1 /\ LastEntry.op = "Execute" /\ LastEntry.Type \in ProtocolKinds)
        => LastEntry.err # ErrUnknown

\* The kinds Execute dispatches to a mutation.
DispatchedKinds == {CmdAddComponent} \cup IdKinds

\* Kinds offered to Execute that it does not dispatch: the five further kinds
\* of the protocol and kinds outside the protocol.
UnknownKinds == (ProtocolKinds \ DispatchedKinds) \cup {"bogus", "", "ADD_COMPONENT"}

\* C11: unknown kinds fail.  In every reachable state, Execute of a command
\* whose kind is not one Execute dispatches, whatever its payload, returns the
\* error "unknown command type: {kind}" (not nil, not another error) and the
\* canvas (name, dimensions, theme, components) is as before the call.
C11_UnknownKindFails ==
    \A s \in Sessions : \A k \in UnknownKinds : \A env \in SessionEnv :
        \A p \in AddParamsSet \cup {ZeroParams, Malformed, IdParams(CmdRemoveComponent, MissingID)} :
            LET r == Execute(heap, sessions[s], idCounter, env, Command(k, p))
            IN /\ r.err = ErrUnknown
               /\ r.err \notin {ErrNil, ErrNotFound, ErrDecode}
               /\ r.arg = k
               /\ r.ctr = idCounter
               /\ CanvasView(r.heap, r.sess.Canvas) = CanvasView(heap, sessions[s].Canvas)

\* C11 witness: a command of a kind outside the protocol has just been
\* executed on a canvas that has components, and the unknown-kind error came
\* back.
C11_Witness ==
    /\ Len(trail) >= 1
    /\ LastEntry.op = "Execute" /\ LastEntry.Type = "bogus"
    /\ LastEntry.err = ErrUnknown /\ ~LastEntry.ok
    /\ Len(ListComponents(heap, sessions[LastEntry.s])) >= 1

\* Commands with a payload that does not decode, one per dispatched kind.
MalformedCommands == {Command(k, Malformed) : k \in DispatchedKinds}

\* C12: a failed Execute still consumes history.  In every reachable state
\* and for every command, if Execute returns an error (decode, not-found or
\* unknown-kind) then the canvas is as before the call, the undoStack is one
\* longer, the redoStack is empty, and the Undo() that follows returns true
\* and leaves the canvas that was there before the failed Execute.
C12_FailedExecuteKeepsCanvas ==
    \A s \in Sessions : \A env \in SessionEnv :
        \A cmd \in Commands(heap, sessions[s]) \cup MalformedCommands :
            LET r == Execute(heap, sessions[s], idCounter, env, cmd)
                u == Undo(r.sess)
            IN r.err # ErrNil =>
                  /\ CanvasView(r.heap, r.sess.Canvas) = CanvasView(heap, sessions[s].Canvas)
                  /\ Len(r.sess.UndoStack) = Len(sessions[s].UndoStack) + 1
                  /\ r.sess.RedoStack = <<>>
                  /\ u.ok
                  /\ CanvasView(r.heap, u.sess.Canvas) = CanvasView(heap, sessions[s].Canvas)
                  /\ Len(u.sess.UndoStack) = Len(sessions[s].UndoStack)

\* C12 witness: on a canvas with components, an Execute that returned an
\* error has been followed by an Undo() that returned true.
C12_Witness ==
    /\ Len(trail) >= 2
    /\ trail[Len(trail) - 1].op = "Execute" /\ ~trail[Len(trail) - 1].ok
    /\ trail[Len(trail) - 1].err \in {ErrDecode, ErrNotFound, ErrUnknown}
    /\ LastEntry.op = "Undo" /\ LastEntry.ok
    /\ LastEntry.s = trail[Len(trail) - 1].s
    /\ Len(ListComponents(heap, sessions[LastEntry.s])) >= 1

\* C13: Undo and Redo on empty stacks.  In every reachable state, the fresh
\* session included, Undo() on an empty undoStack returns false and leaves
\* the session (canvas, undoStack, redoStack) as it is, and Redo() on an
\* empty redoStack returns false and leaves the session as it is.
C13_EmptyStacksNoEffect ==
    \A s \in Sessions :
        /\ Len(sessions[s].UndoStack) = 0 =>
              /\ ~Undo(sessions[s]).ok
              /\ Undo(sessions[s]).sess = sessions[s]
        /\ Len(sessions[s].RedoStack) = 0 =>
              /\ ~Redo(sessions[s]).ok
              /\ Redo(sessions[s]).sess = sessions[s]

\* C13 witness: on a canvas that has components and no history, Undo() and
\* then Redo() have both returned false.
C13_Witness ==
    /\ Len(trail) >= 2
    /\ trail[Len(trail) - 1].op = "Undo" /\ ~trail[Len(trail) - 1].ok
    /\ LastEntry.op = "Redo" /\ ~LastEntry.ok
    /\ LastEntry.s = trail[Len(trail) - 1].s
    /\ sessions[LastEntry.s].UndoStack = <<>> /\ sessions[LastEntry.s].RedoStack = <<>>
    /\ Len(ListComponents(heap, sessions[LastEntry.s])) >= 1

\* C14: Clear follows the history semantics of a mutation.  In every
\* reachable state Clear() pushes one snapshot equal to the canvas before the
\* call, empties the redoStack and leaves a canvas with zero components and
\* the other canvas fields as they were; the Undo() that follows returns true
\* and restores the component list that was there before Clear().
C14_ClearIsUndoable ==
    \A s \in Sessions :
        LET S == sessions[s]
            r == Clear(heap, S)
            u == Undo(r.sess)
        IN /\ Len(r.sess.UndoStack) = Len(S.UndoStack) + 1
           /\ SubSeq(r.sess.UndoStack, 1, Len(S.UndoStack)) = S.UndoStack
           /\ CanvasView(r.heap, r.sess.UndoStack[Len(r.sess.UndoStack)]) = CanvasView(heap, S.Canvas)
           /\ r.sess.RedoStack = <<>>
           /\ CanvasView(r.heap, r.sess.Canvas) = [CanvasView(heap, S.Canvas) EXCEPT !.Components = <<>>]
           /\ u.ok
           /\ Elems(r.heap, u.sess.Canvas.Components) = ListComponents(heap, S)
           /\ CanvasView(r.heap, u.sess.Canvas) = CanvasView(heap, S.Canvas)

\* C14 witness: Clear() has emptied a canvas that had components, and the
\* Undo() after it has brought the components back.
C14_Witness ==
    /\ Len(trail) >= 2
    /\ trail[Len(trail) - 1].op = "Clear"
    /\ LastEntry.op = "Undo" /\ LastEntry.ok
    /\ LastEntry.s = trail[Len(trail) - 1].s
    /\ Len(ListComponents(heap, sessions[LastEntry.s])) >= 2
    /\ Len(sessions[LastEntry.s].RedoStack) = 1
    /\ sessions[LastEntry.s].RedoStack[1].Components.len = 0

\* C15: Session.history is an append-only log of the executed commands.
\* Every call of Execute appends its command as the last entry of History,
\* and no other operation (Undo, Redo, Clear among them) removes, changes or
\* reorders an entry.
C15_HistoryLogsCommands ==
    [][ Performed =>
          LET s == NewEntry.s
              H == sessions[s].History
              H2 == sessions'[s].History
          IN IF NewEntry.op = "Execute"
             THEN /\ Len(H2) = Len(H) + 1
                  /\ SubSeq(H2, 1, Len(H)) = H
                  /\ H2[Len(H2)].Type = NewEntry.Type
             ELSE NewEntry.op \in {"Undo", "Redo", "Clear"} => H2 = H ]_vars

\* The session a text is loaded into: a new one, of another name and size.
LoadTarget == NewSession("scratch", 10, 5)

\* C16: round-trip serialization.  For the canvas C of every reachable
\* state, ExportJSON(C) succeeds and LoadFromJSON of its text into a new
\* session gives a canvas equal to C in name, width, height, theme and in
\* every field of every component, in the same order.
C16_RoundTrip ==
    \A s \in Sessions :
        LET e == ExportJSON(heap, sessions[s])
            l == LoadFromJSON(heap, LoadTarget, Unmarshal(e.text))
        IN /\ e.err = ErrNil
           /\ l.err = ErrNil
           /\ CanvasView(l.heap, l.sess.Canvas) = CanvasView(heap, sessions[s].Canvas)

\* The snapshots offered to LoadFromJSON by the properties: those of the
\* state machine, one without components, and the text of no bytes.
ProbeDocs == Docs \cup {Doc(<<>>), Unmarshal(NoText)}

\* C17: Load is atomic.  In every reachable state, LoadFromJSON of a
\* well-formed snapshot returns nil and makes the canvas exactly the
\* snapshot's content: its name, dimensions and theme and its components,
\* with no component of the previous canvas left; LoadFromJSON of a malformed
\* snapshot returns a parse error and leaves the canvas, the undoStack and the
\* redoStack as they were.
C17_LoadIsAtomic ==
    \A s \in Sessions : \A doc \in ProbeDocs :
        LET S == sessions[s]
            l == LoadFromJSON(heap, S, doc)
        IN IF doc.wellformed
           THEN /\ l.err = ErrNil
                /\ CanvasView(l.heap, l.sess.Canvas) =
                      [Name |-> doc.Name, Width |-> doc.Width, Height |-> doc.Height,
                       Theme |-> doc.Theme, Components |-> doc.Components]
                /\ \A t \in Sessions \ {s} :
                      CanvasView(l.heap, sessions[t].Canvas) = CanvasView(heap, sessions[t].Canvas)
           ELSE /\ l.err = ErrDecode
                /\ CanvasView(l.heap, l.sess.Canvas) = CanvasView(heap, S.Canvas)
                /\ l.sess.Canvas = S.Canvas
                /\ l.sess.UndoStack = S.UndoStack
                /\ l.sess.RedoStack = S.RedoStack
                /\ l.heap = heap

\* C17 witness: a snapshot has been loaded over the three components of the
\* template, none of which is left, and a malformed snapshot has then been
\* refused.
C17_Witness ==
    /\ Len(trail) = 3
    /\ trail[1].op = "Apply"
    /\ trail[2].op = "LoadFromJSON" /\ trail[2].ok
    /\ trail[3].op = "LoadFromJSON" /\ trail[3].err = ErrDecode
    /\ sessions[trail[3].s].Canvas.Name = "Loaded"
    /\ CanvasIDs(heap, sessions[trail[3].s]) = {LoadedID}

(***************************************************************************)
(* Reading a generated text back: its sections and its per-component       *)
(* blocks.                                                                 *)
(***************************************************************************)
\* Position of the first occurrence of a line in a text.
IndexOfLine(text, line) ==
    CHOOSE i \in 1..Len(text) :
        /\ text[i] = line
        /\ \A j \in 1..(i - 1) : text[j] # line

\* The lines of the state struct between its fixed first and last fields.
ModelSection(text) ==
    SubSeq(text, IndexOfLine(text, Literal("\theight int\n")) + 1,
                 IndexOfLine(text, Literal("\tquitting bool\n")) - 1)

\* The lines of View() between the declaration of content and its return.
ViewSection(text) ==
    SubSeq(text, IndexOfLine(text, Literal("\tvar content string\n\n")) + 1,
                 IndexOfLine(text, Literal("\treturn content\n")) - 1)

\* The text without the two per-component sections.
FixedSections(text) ==
    SubSeq(text, 1, IndexOfLine(text, Literal("\theight int\n")))
    \o SubSeq(text, IndexOfLine(text, Literal("\tquitting bool\n")),
                    IndexOfLine(text, Literal("\tvar content string\n\n")))
    \o SubSeq(text, IndexOfLine(text, Literal("\treturn content\n")), Len(text))

\* A rendering block starts with its comment line.
CommentFormats ==
    {"\t// Box: %s\n", "\t// Text: %s\n", "\t// Button: %s\n",
     "\t// %s: %s (TODO: implement)\n"}

BlockStarts(view) == {i \in 1..Len(view) : view[i].fmt \in CommentFormats}

KthStart(view, k) ==
    CHOOSE i \in BlockStarts(view) :
        Cardinality({j \in BlockStarts(view) : j < i}) = k - 1

\* The k-th rendering block of a view section.
ViewBlock(view, k) ==
    SubSeq(view, KthStart(view, k),
           IF k < Cardinality(BlockStarts(view)) THEN KthStart(view, k + 1) - 1
           ELSE Len(view))

\* The formats whose first argument is the component's index.
IndexedFormats ==
    {"\tinput%d string\n", "\tlist%d []string\n", "\tlist%dSelected int\n",
     "\tprogress%d float64\n",
     "\tbox%d := boxStyle.Width(%d).Height(%d).Render(%q)\n",
     "\tcontent += box%d + \"\\n\"\n\n",
     "\ttext%d := lipgloss.NewStyle().Foreground(textColor).Render(%q)\n",
     "\tcontent += text%d + \"\\n\"\n\n",
     "\tbutton%d := buttonStyle.Render(%q)\n",
     "\tcontent += button%d + \"\\n\"\n\n"}

\* The state fields that carry a given index.
StateFields(model, index) ==
    SelectSeq(model, LAMBDA l : l.fmt \in IndexedFormats /\ l.args[1] = FmtD(index))

\* A block with the index of its identifiers left aside.
Unindexed(block) ==
    [k \in 1..Len(block) |->
        IF block[k].fmt \in IndexedFormats
        THEN [block[k] EXCEPT !.args[1] = "N"]
        ELSE block[k]]

\* The list with the components at positions i and j exchanged.
Swap(comps, i, j) ==
    [k \in 1..Len(comps) |->
        IF k = i THEN comps[j] ELSE IF k = j THEN comps[i] ELSE comps[k]]

\* The text generated for a canvas value that holds the given components.
GenerateFor(h, canvas, comps) ==
    Generate(Append(h, comps),
             NewGenerator([canvas EXCEPT !.Components = [arr |-> Len(h) + 1, len |-> Len(comps)]]))

\* C18: generator determinism.  Export called again on a session whose
\* component list is the one the last exported text was generated from
\* returns that text again, whatever has happened to the session in between;
\* and the text is the same for another canvas name, theme, width and height
\* and another session history, and for two sessions holding equal component
\* lists.
C18_GenerateDependsOnComponentsOnly ==
    /\ (exported # NotExported
        /\ ListComponents(heap, sessions[exported.s]) = exported.from)
          => Export(heap, sessions[exported.s]) = exported.text
    /\ \A s \in Sessions :
          LET S == sessions[s]
              other == [Resize(SetTheme(S, "mono"), 132, 43) EXCEPT
                           !.Canvas.Name = "renamed", !.UndoStack = <<>>, !.RedoStack = <<>>]
          IN /\ Export(heap, other) = Export(heap, S)
             /\ GenerateFor(heap, LoadTarget.Canvas, ListComponents(heap, S)) = Export(heap, S)
    /\ \A s, t \in Sessions :
          ListComponents(heap, sessions[s]) = ListComponents(heap, sessions[t])
              => Export(heap, sessions[s]) = Export(heap, sessions[t])

\* C18 witness: a canvas with components has been exported and its theme
\* changed afterwards; its component list is still the exported one.
C18_Witness ==
    /\ Len(trail) = 3
    /\ trail[2].op = "Export" /\ trail[3].op = "SetTheme"
    /\ exported.s = trail[3].s
    /\ sessions[exported.s].Canvas.Theme = "neon"
    /\ Len(exported.from) >= 2
    /\ ListComponents(heap, sessions[exported.s]) = exported.from

\* C19: order independence of the blocks.  For the canvas of every reachable
\* state and the canvas that holds the same components with two of them
\* exchanged, the block emitted for each of the two components (its state
\* fields and its view statements) is textually the same in both outputs.
C19_BlocksIndependentOfOrder ==
    \A s \in Sessions :
        LET canvas == sessions[s].Canvas
            comps == ListComponents(heap, sessions[s])
            out == Export(heap, sessions[s])
        IN \A i, j \in 1..Len(comps) : i < j =>
              LET out2 == GenerateFor(heap, canvas, Swap(comps, i, j))
              IN /\ ViewBlock(ViewSection(out), i) = ViewBlock(ViewSection(out2), j)
                 /\ ViewBlock(ViewSection(out), j) = ViewBlock(ViewSection(out2), i)
                 /\ StateFields(ModelSection(out), i - 1) = StateFields(ModelSection(out2), j - 1)
                 /\ StateFields(ModelSection(out), j - 1) = StateFields(ModelSection(out2), i - 1)

\* C19 as amended: the blocks are the same up to the position index in their
\* identifiers.  For the canvas of every reachable state and the canvas with
\* two of its components exchanged: the sections outside the per-component
\* blocks are equal; the blocks of the components that kept their position
\* are equal; the block of each exchanged component is equal in both outputs
\* once the index carried by its identifiers (boxN, textN, buttonN, inputN,
\* listN, listNSelected, progressN) is left aside, that index being the
\* component's position in its canvas; and a placeholder block, which carries
\* no index, is equal as it stands.
C19_BlocksEqualUpToIndex ==
    \A s \in Sessions :
        LET canvas == sessions[s].Canvas
            comps == ListComponents(heap, sessions[s])
            out == Export(heap, sessions[s])
            view == ViewSection(out)
            model == ModelSection(out)
        IN \A i, j \in 1..Len(comps) : i < j =>
              LET out2 == GenerateFor(heap, canvas, Swap(comps, i, j))
                  view2 == ViewSection(out2)
                  model2 == ModelSection(out2)
              IN /\ FixedSections(out2) = FixedSections(out)
                 /\ Cardinality(BlockStarts(view2)) = Cardinality(BlockStarts(view))
                 /\ \A k \in 1..Len(comps) \ {i, j} :
                       /\ ViewBlock(view2, k) = ViewBlock(view, k)
                       /\ StateFields(model2, k - 1) = StateFields(model, k - 1)
                 /\ Unindexed(ViewBlock(view, i)) = Unindexed(ViewBlock(view2, j))
                 /\ Unindexed(ViewBlock(view, j)) = Unindexed(ViewBlock(view2, i))
                 /\ Unindexed(StateFields(model, i - 1)) = Unindexed(StateFields(model2, j - 1))
                 /\ Unindexed(StateFields(model, j - 1)) = Unindexed(StateFields(model2, i - 1))
                 /\ \A k \in {i, j} : \A n \in 1..Len(ViewBlock(view2, k)) :
                       ViewBlock(view2, k)[n].fmt \in IndexedFormats
                           => ViewBlock(view2, k)[n].args[1] = FmtD(k - 1)
                 /\ \A k \in {i, j} :
                       comps[k].Type \notin {TypeBox, TypeText, TypeButton} =>
                           ViewBlock(view, k) = ViewBlock(view2, IF k = i THEN j ELSE i)

\* C19 witness: a canvas holding boxes, a text and a progress bar, in this
\* order, has been exported.
C19_Witness ==
    /\ Len(trail) >= 1 /\ LastEntry.op = "Export"
    /\ exported.s = LastEntry.s
    /\ Len(exported.from) = 4
    /\ exported.from[1].Type = TypeBox
    /\ exported.from[3].Type = TypeText
    /\ exported.from[4].Type = TypeProgress
    /\ exported.text = Export(heap, sessions[exported.s])

\* The rendering block the view is to hold for a component at a position:
\* for a box, text or button the comment, the styled-render call embedding
\* the quoted text, and the statement adding it to content; for any other
\* type the placeholder comment and the bracketed tag.
IsBlockOf(block, index, comp) ==
    CASE comp.Type = TypeBox ->
            /\ Len(block) = 3
            /\ block[1] = Sprintf("\t// Box: %s\n", <<comp.Name>>)
            /\ block[2].fmt = "\tbox%d := boxStyle.Width(%d).Height(%d).Render(%q)\n"
            /\ block[2].args[1] = FmtD(index)
            /\ block[2].args[4] = FmtQ(comp.Text)
            /\ block[3] = Sprintf("\tcontent += box%d + \"\\n\"\n\n", <<FmtD(index)>>)
      [] comp.Type = TypeText ->
            /\ Len(block) = 3
            /\ block[1] = Sprintf("\t// Text: %s\n", <<comp.Name>>)
            /\ block[2].fmt = "\ttext%d := lipgloss.NewStyle().Foreground(textColor).Render(%q)\n"
            /\ block[2].args = <<FmtD(index), FmtQ(comp.Text)>>
            /\ block[3] = Sprintf("\tcontent += text%d + \"\\n\"\n\n", <<FmtD(index)>>)
      [] comp.Type = TypeButton ->
            /\ Len(block) = 3
            /\ block[1] = Sprintf("\t// Button: %s\n", <<comp.Name>>)
            /\ block[2].fmt = "\tbutton%d := buttonStyle.Render(%q)\n"
            /\ block[2].args = <<FmtD(index), FmtQ(comp.Text)>>
            /\ block[3] = Sprintf("\tcontent += button%d + \"\\n\"\n\n", <<FmtD(index)>>)
      [] OTHER ->
            /\ Len(block) = 2
            /\ block[1] = Sprintf("\t// %s: %s (TODO: implement)\n", <<comp.Type, comp.Name>>)
            /\ block[2] = Sprintf("\tcontent += \"[%s: %s]\\n\"\n\n", <<comp.Type, comp.Name>>)

\* C20: one rendering block per component, in canvas order.  For the canvas
\* of every reachable state the view section of the generated text consists
\* of as many blocks as the canvas has components and of nothing else, and the
\* k-th block is the one of the k-th component: the styled-render call with
\* the component's quoted text for a box, text or button, the placeholder
\* comment and bracketed tag for any other type.
C20_OneBlockPerComponent ==
    \A s \in Sessions :
        LET comps == ListComponents(heap, sessions[s])
            view == ViewSection(Export(heap, sessions[s]))
        IN /\ Cardinality(BlockStarts(view)) = Len(comps)
           /\ Len(comps) = 0 => view = <<>>
           /\ Len(comps) > 0 => KthStart(view, 1) = 1
           /\ \A k \in 1..Len(comps) : IsBlockOf(ViewBlock(view, k), k - 1, comps[k])

\* C20 witness: a canvas holding a box, a text and a list among its
\* components has been exported.
C20_Witness ==
    /\ Len(trail) >= 1 /\ LastEntry.op = "Export"
    /\ exported.s = LastEntry.s
    /\ {TypeBox, TypeText, TypeList} \subseteq
          {exported.from[k].Type : k \in 1..Len(exported.from)}
    /\ Len(ViewSection(exported.text)) >= 3 * 3 + 2

\* The operations performed so far are all Execute calls of the given kinds.
OnlyExecuted(kinds) ==
    /\ Len(trail) = ops
    /\ \A k \in 1..Len(trail) : trail[k].op = "Execute" /\ trail[k].Type \in kinds

\* C22: sizes are never negative.  In every state reached by a sequence of
\* AddComponent and ResizeComponent commands, whatever their integer
\* parameters, every component of the canvas has width >= 0 and height >= 0.
C22_NonNegativeSize ==
    \A s \in Sessions :
        OnlyExecuted({CmdAddComponent, CmdResizeComponent}) =>
            LET comps == ListComponents(heap, sessions[s])
            IN \A i \in 1..Len(comps) :
                  comps[i].Size.Width >= 0 /\ comps[i].Size.Height >= 0

\* Every component a session holds: those of its canvas and those of the
\* snapshots on its two stacks.
SessionComponents(h, S) ==
    LET in(cv) == {h[cv.Components.arr][i] : i \in 1..cv.Components.len}
    IN in(S.Canvas)
       \cup UNION {in(S.UndoStack[k]) : k \in 1..Len(S.UndoStack)}
       \cup UNION {in(S.RedoStack[k]) : k \in 1..Len(S.RedoStack)}

\* The id and the type of each component of a list, in order.
IdentityOf(comps) == [i \in 1..Len(comps) |-> <<comps[i].ID, comps[i].Type>>]

\* The list without its i-th element.
Without(comps, i) ==
    [k \in 1..(Len(comps) - 1) |-> IF k < i THEN comps[k] ELSE comps[k + 1]]

\* C23: id and type are immutable.  Over every Move, Resize, Style, SetText,
\* Remove, Clear, Undo and Redo: a component the session holds after the
\* operation (in its canvas or in a snapshot) has the type that every
\* component of the same id had before it; Move, Resize, Style and SetText
\* leave the ids and types of the canvas position by position; Remove leaves
\* those of the components it keeps; Undo and Redo bring back components
\* with the ids and types they were saved with.
C23_IdAndTypeImmutable ==
    [][ (/\ Performed
         /\ \/ NewEntry.op \in {"Clear", "Undo", "Redo"}
            \/ NewEntry.op = "Execute" /\ NewEntry.Type \in IdKinds) =>
          LET s == NewEntry.s
              S == sessions[s]
              S2 == sessions'[s]
              comps == Elems(heap, S.Canvas.Components)
              comps2 == Elems(heap', S2.Canvas.Components)
          IN /\ \A c2 \in SessionComponents(heap', S2) :
                   \A c \in SessionComponents(heap, S) :
                       c2.ID = c.ID => c2.Type = c.Type
             /\ {<<c2.ID, c2.Type>> : c2 \in SessionComponents(heap', S2)} \subseteq
                   {<<c.ID, c.Type>> : c \in SessionComponents(heap, S)}
             /\ CASE NewEntry.op = "Execute" /\ NewEntry.Type = CmdRemoveComponent ->
                        IF NewEntry.ok
                        THEN \E i \in 1..Len(comps) :
                                IdentityOf(comps2) = IdentityOf(Without(comps, i))
                        ELSE IdentityOf(comps2) = IdentityOf(comps)
                  [] NewEntry.op = "Execute" /\ NewEntry.Type # CmdRemoveComponent ->
                        IdentityOf(comps2) = IdentityOf(comps)
                  [] NewEntry.op = "Clear" -> comps2 = <<>>
                  [] NewEntry.op = "Undo" ->
                        IF NewEntry.ok
                        THEN IdentityOf(comps2) =
                                IdentityOf(Elems(heap, S.UndoStack[Len(S.UndoStack)].Components))
                        ELSE IdentityOf(comps2) = IdentityOf(comps)
                  [] NewEntry.op = "Redo" ->
                        IF NewEntry.ok
                        THEN IdentityOf(comps2) =
                                IdentityOf(Elems(heap, S.RedoStack[Len(S.RedoStack)].Components))
                        ELSE IdentityOf(comps2) = IdentityOf(comps) ]_vars

\* C23 witness: the text of a box of the template has been set and the
\* change undone; the canvas holds its three components again, and the box
\* with the new text is on the redo stack.
C23_Witness ==
    /\ Len(trail) = 3
    /\ trail[1].op = "Apply"
    /\ trail[2].op = "Execute" /\ trail[2].Type = CmdSetText /\ trail[2].ok
    /\ trail[3].op = "Undo" /\ trail[3].ok
    /\ Len(ListComponents(heap, sessions[trail[3].s])) = 3
    /\ \E c \in SessionComponents(heap, sessions[trail[3].s]) :
          c.Text = "new" /\ c.Type = TypeBox

\* C26: every Execute, before it dispatches, pushes exactly one snapshot
\* equal to the canvas as it was before the call and empties the redoStack;
\* the mutation the dispatch then applies in place, and every later
\* operation, leaves that snapshot and the snapshots below it as they were
\* for as long as they are on the undoStack.
C26_ExecutePushesStableSnapshot ==
    [][ Performed =>
            LET s == NewEntry.s
                n == Len(sessions[s].UndoStack)
                m == Len(sessions'[s].UndoStack)
            IN /\ NewEntry.op = "Execute" =>
                     /\ m = n + 1
                     /\ CanvasView(heap', sessions'[s].UndoStack[m])
                            = CanvasView(heap, sessions[s].Canvas)
                     /\ sessions'[s].RedoStack = <<>>
                     /\ \A i \in 1..n :
                            CanvasView(heap', sessions'[s].UndoStack[i])
                               = CanvasView(heap, sessions[s].UndoStack[i])
               /\ NewEntry.op \in {"Undo", "Redo", "Clear"} =>
                     \A i \in 1..(IF m < n THEN m ELSE n) :
                        CanvasView(heap', sessions'[s].UndoStack[i])
                           = CanvasView(heap, sessions[s].UndoStack[i]) ]_vars

\* C26 witness: two commands have been executed with success, the second one
\* changing a component in place; the undoStack holds two snapshots, the
\* upper one differs from the canvas, and the redoStack is empty.
C26_Witness ==
    /\ Len(trail) >= 2
    /\ trail[Len(trail) - 1].op = "Execute" /\ trail[Len(trail) - 1].ok
    /\ LastEntry.op = "Execute" /\ LastEntry.ok
    /\ LastEntry.Type \in {CmdMoveComponent, CmdRemoveComponent, CmdSetText}
    /\ LET S == sessions[LastEntry.s]
       IN /\ Len(S.UndoStack) >= 2
          /\ S.RedoStack = <<>>
          /\ CanvasView(heap, S.UndoStack[Len(S.UndoStack)]) # CanvasView(heap, S.Canvas)

\* The component list with the field the command of kind k addresses set, in
\* its i-th component, to the value of the payload p; for Remove, the list
\* without its i-th component.
Edited(comps, i, k, p) ==
    CASE k = CmdMoveComponent -> [comps EXCEPT ![i].Position = [X |-> p.X, Y |-> p.Y]]
      [] k = CmdResizeComponent ->
            [comps EXCEPT ![i].Size = [Width |-> p.Width, Height |-> p.Height]]
      [] k = CmdStyleComponent -> [comps EXCEPT ![i].Style = p.Style]
      [] k = CmdSetText -> [comps EXCEPT ![i].Text = p.Text]
      [] OTHER -> Without(comps, i)

\* C27: in every reachable state, Move, Resize, Style and SetText of an id
\* the canvas holds succeed and change only the addressed field of the first
\* component of that id (every other field, every other component, the
\* order, and the canvas name, dimensions and theme stay); Remove succeeds
\* and deletes that one component, the others keeping their order.
C27_EditFrame ==
    \A s \in Sessions : \A k \in IdKinds : \A env \in SessionEnv :
        \A id \in CanvasIDs(heap, sessions[s]) :
            LET comps == ListComponents(heap, sessions[s])
                p == IdParams(k, id)
                r == Execute(heap, sessions[s], idCounter, env, Command(k, p))
                i == CHOOSE i \in 1..Len(comps) :
                        /\ comps[i].ID = id
                        /\ \A j \in 1..(i - 1) : comps[j].ID # id
            IN /\ r.err = ErrNil
               /\ ListComponents(r.heap, r.sess) = Edited(comps, i, k, p)
               /\ r.sess.Canvas.Name = sessions[s].Canvas.Name
               /\ r.sess.Canvas.Width = sessions[s].Canvas.Width
               /\ r.sess.Canvas.Height = sessions[s].Canvas.Height
               /\ r.sess.Canvas.Theme = sessions[s].Canvas.Theme

\* C27 witness: a Move has just succeeded on a canvas of several components;
\* one component is at the new position, and the canvas differs from the
\* snapshot taken before the Move in the position of that component only.
C27_Witness ==
    /\ Len(trail) >= 1
    /\ LastEntry.op = "Execute" /\ LastEntry.Type = CmdMoveComponent /\ LastEntry.ok
    /\ LET S == sessions[LastEntry.s]
           comps == ListComponents(heap, S)
           was == Elems(heap, S.UndoStack[Len(S.UndoStack)].Components)
           at == IdParams(CmdMoveComponent, NoID)
       IN /\ Len(comps) >= 2
          /\ was # comps
          /\ \E i \in 1..Len(comps) :
                /\ comps[i].Position = [X |-> at.X, Y |-> at.Y]
                /\ was = [comps EXCEPT ![i].Position = was[i].Position]

\* Payloads of AddComponent with each width and height absent (0) and given.
AddPayloads ==
    {[ZeroParams EXCEPT !.Type = TypeText, !.Name = "label", !.X = 4, !.Y = 2,
                        !.Width = w, !.Height = h, !.Text = "Hi"] :
        w \in {0, 30}, h \in {0, 7}}

\* C28: in every reachable state a well-formed AddComponent succeeds and
\* appends exactly one component at the end of the list, the components
\* before it and their order unchanged; the new component has the payload's
\* type, name, position and text and the id the generator yields for the
\* next counter value; a width or height of 0 leaves the default (20, 3), a
\* positive one replaces it.
C28_AddAppendsOne ==
    \A s \in Sessions : \A env \in SessionEnv : \A p \in AddPayloads :
        LET comps == ListComponents(heap, sessions[s])
            r == Execute(heap, sessions[s], idCounter, env, Command(CmdAddComponent, p))
            after == ListComponents(r.heap, r.sess)
            new == after[Len(after)]
        IN /\ r.err = ErrNil
           /\ Len(after) = Len(comps) + 1
           /\ SubSeq(after, 1, Len(comps)) = comps
           /\ new.Type = p.Type /\ new.Name = p.Name /\ new.Text = p.Text
           /\ new.Position = [X |-> p.X, Y |-> p.Y]
           /\ r.ctr = idCounter + 1
           /\ new.ID = generateID(r.ctr, env.ts, env.rnd)
           /\ new.Size.Width = (IF p.Width = 0 THEN 20 ELSE p.Width)
           /\ new.Size.Height = (IF p.Height = 0 THEN 3 ELSE p.Height)

\* C28 witness: an AddComponent whose payload has width 0 has just succeeded
\* on a canvas that had components; the new component is the last one, at
\* the payload's position and of the default size.
C28_Witness ==
    /\ Len(trail) >= 1
    /\ LastEntry.op = "Execute" /\ LastEntry.Type = CmdAddComponent /\ LastEntry.ok
    /\ LET S == sessions[LastEntry.s]
           comps == ListComponents(heap, S)
           was == Elems(heap, S.UndoStack[Len(S.UndoStack)].Components)
       IN /\ Len(was) >= 1
          /\ Len(comps) = Len(was) + 1
          /\ SubSeq(comps, 1, Len(was)) = was
          /\ comps[Len(comps)].Name = "field"
          /\ comps[Len(comps)].Position = [X |-> -1, Y |-> 4]
          /\ comps[Len(comps)].Size = [Width |-> 20, Height |-> 3]

(***************************************************************************)
(* Properties of the session server.                                       *)
(***************************************************************************)
\* The requests of both clients have been answered.
AllAnswered == \A c \in Clients : reqs[c].pc = "done"

\* C21: the session server serializes operations on the same session.  When
\* two add_component requests for one session have run, concurrently or
\* not, and both have been answered with an id, both components are in the
\* canvas, the undoStack has grown by two, and each response carries the id
\* of the component its own request added.
C21_SameSessionSerialized ==
    (/\ ops = 2
     /\ AllAnswered
     /\ \A c \in Clients : /\ reqs[c].kind = KindAdd
                            /\ reqs[c].sid = "session_1"
                            /\ reqs[c].resp.status = StatusOK)
    => LET S == sessions[registry["session_1"].API]
           comps == ListComponents(heap, S)
       IN /\ Len(comps) = 2
          /\ Len(S.UndoStack) = 2
          /\ \A c \in Clients :
                \E i \in 1..Len(comps) :
                    /\ comps[i].ID = reqs[c].resp.id
                    /\ comps[i].Name = reqs[c].name
                    /\ comps[i].Type = reqs[c].type

\* C29: when a move_component, remove_component or set_text request names a
\* component id that the session's canvas does not hold, so that Execute
\* returns the not-found error, the response reports that error and not a
\* success.
C29_NotFoundReported ==
    \A c \in Clients :
        (/\ reqs[c].pc = "done"
         /\ reqs[c].kind \in {KindMove, KindRemove, KindSetText}
         /\ reqs[c].err = ErrNotFound)
        => /\ reqs[c].resp.status # StatusOK
           /\ reqs[c].resp.msg = ErrNotFound

\* The elements of a sequence.
Range(seq) == {seq[i] : i \in 1..Len(seq)}

\* C30: under every interleaving of create, lookup and delete requests, the
\* sessions created have pairwise distinct ids; when no handler is inside
\* the write lock, the registry resolves exactly the ids created and not
\* deleted; a lookup or delete sent after the creation of its id was
\* complete, and answered while no delete of that id was complete, finds the
\* session; and a request sent after a delete of its id was complete gets
\* "session not found".  A create or delete is complete when its handler
\* releases the write lock.
C30_RegistryConsistent ==
    /\ \A i, j \in 1..Len(served.created) :
          i # j => served.created[i] # served.created[j]
    /\ sessionMu.writer = 0 =>
          /\ DOMAIN registry = Range(served.created) \ served.deleted
          /\ \A id \in DOMAIN registry : GetSession(registry, id).ID = id
    /\ \A c \in Clients :
          LET r == reqs[c]
          IN (r.pc = "done" /\ r.kind \in {KindGet, KindDelete}) =>
                /\ (r.sid \in Range(r.before.created) /\ r.sid \notin r.after.deleted) =>
                      /\ r.resp.status = StatusOK
                      /\ r.kind = KindGet => r.resp.sid = r.sid
                /\ r.sid \in r.before.deleted =>
                      r.resp = respondError(StatusNotFound, "session not found")

\* C30 witness: a session was created and deleted, a lookup of its id sent
\* after the delete has been answered "session not found", and another
\* session created meanwhile is still in the registry.
C30_Witness ==
    /\ \E c \in Clients :
          /\ reqs[c].pc = "done" /\ reqs[c].kind = KindGet
          /\ reqs[c].sid \in Range(reqs[c].before.created)
          /\ reqs[c].sid \in reqs[c].before.deleted
          /\ reqs[c].resp.status = StatusNotFound
    /\ Len(served.created) >= 2
    /\ DOMAIN registry # {}

(***************************************************************************)
(* Properties of the widgets.                                              *)
(***************************************************************************)
\* C24: the slider keeps its value in range.  In every state reached by
\* SetValue, Increment, Decrement and key Updates on a slider created with
\* Min <= Max: Min <= Value <= Max; and right after SetValue(v), Value is v
\* when Min <= v <= Max, and the nearer bound otherwise.
C24_SliderValueInRange ==
    /\ FLe(slider.Min, slider.Value) /\ FLe(slider.Value, slider.Max)
    /\ call.op = "SetValue" =>
          IF FLe(slider.Min, call.value) /\ FLe(call.value, slider.Max)
          THEN slider.Value = call.value
          ELSE slider.Value \in {slider.Min, slider.Max}

\* C25: AddWindow puts the window in Windows and gives it the focus; and
\* whenever Windows is not empty (after any AddWindow, RemoveWindow,
\* FocusWindow, FocusNext or FocusPrev), exactly one of its windows has
\* Focused = TRUE, and it is Windows[FocusedIdx].
C25_ExactlyOneFocused ==
    /\ call.op = "AddWindow" =>
          /\ call.window \in Held(wm)
          /\ GetFocused(wm) = call.window
          /\ windows[call.window].Focused
    /\ Len(wm.Windows) > 0 =>
          /\ Cardinality({w \in Held(wm) : windows[w].Focused}) = 1
          /\ GetFocused(wm) # ""
          /\ windows[GetFocused(wm)].Focused

====
